---- MODULE Spec2Model ----
(***************************************************************************)
(* WordGotchi storage engine (frontend/src/services/StorageService.ts):    *)
(* the debounced write buffer, the localStorage / in-memory mirror pair,   *)
(* the caps, the capacity check and the pruning, as a state machine.       *)
(*                                                                         *)
(* Every method of StorageServiceImpl is an operator from an engine state  *)
(* (a record of the module-level variables of the source plus the browser  *)
(* storage) to the engine state it leaves, composed exactly as the methods *)
(* call each other; an action applies one public method or one timer       *)
(* callback to the current state.                                          *)
(***************************************************************************)
EXTENDS Integers, Sequences, FiniteSets, TLC

VARIABLES
    memoryOnlyMode,         \* let memoryOnlyMode
    memoryStorage,          \* let memoryStorage {gotchi, feedingHistory, expressions}
    gotchiSaveTimer,        \* timer handle, 0 for null
    feedingSaveTimer,
    expressionSaveTimer,
    liveTimers,             \* the timeouts the event loop still holds: <<kind, handle>>
    pendingGotchiState,     \* <<>> for null
    pendingFeedingRecords,
    pendingExpressions,
    localStorage,           \* key -> stored text (NoItem when the key is absent)
    lsBroken,               \* environment: setItem throws a non-quota error
    otherChars,             \* environment: characters other keys of the origin occupy
    nFeedings,              \* number of saveFeedingRecord calls so far
    nExpressions,           \* number of saveExpression calls so far
    nGotchiSaves,           \* number of saveGotchi calls so far
    nEnvEvents,             \* number of changes the environment has made so far
    lastOp,                 \* the last writing call or environment change: its name,
                            \* its argument and the trace of what it did
    gotchi,                 \* GotchiContext: state.gotchi (<<>> for null)
    feedingHistory,         \* GotchiContext: state.feedingHistory
    isLoading,              \* GotchiContext: state.isLoading
    isEvolutionAnimationPlaying,    \* GotchiContext: the EvolutionAnimation is mounted
    showMessage,            \* EvolutionAnimation: its showMessage state
    onCompleteTimers,       \* EvolutionAnimation: the animation loops still running,
                            \* each as the state.gotchi its onComplete closure holds
    processFeeding,         \* Canvas: the position of processFeedingCompletion and
                            \* the gotchi of the render whose closure it runs in
    nEvolutions,            \* number of START_EVOLUTION dispatches so far
    nEmotionUpdates,        \* number of updateEmotions calls so far
    claude                  \* ClaudeAPIClient: the call in progress (its position in
                            \* makeRequestWithRetry, the loop variables) or settled

\* The variables of the React side (GotchiContext, Canvas, EvolutionAnimation).
ctxVars == <<gotchi, feedingHistory, isLoading, isEvolutionAnimationPlaying,
             showMessage, onCompleteTimers, processFeeding, nEvolutions,
             nEmotionUpdates>>

vars == <<memoryOnlyMode, memoryStorage, gotchiSaveTimer, feedingSaveTimer,
          expressionSaveTimer, liveTimers, pendingGotchiState,
          pendingFeedingRecords, pendingExpressions, localStorage, lsBroken,
          otherChars, nFeedings, nExpressions, nGotchiSaves, nEnvEvents, lastOp,
          gotchi, feedingHistory, isLoading, isEvolutionAnimationPlaying,
          showMessage, onCompleteTimers, processFeeding, nEvolutions,
          nEmotionUpdates, claude>>

----------------------------------------------------------------------------
(* Constants of the source.  The three sizes and the batch size are scaled *)
(* down (1000, 500, 5 MiB and 10 in the source) so that the caps, the      *)
(* batch threshold and the ceiling are all reached by short runs; their    *)
(* order (batch size below both caps) is the source's.                     *)

STORAGE_KEY_PREFIX == "wordgotchi"
GOTCHI_KEY == "wordgotchi.gotchi"
FEEDING_HISTORY_KEY == "wordgotchi.feedingHistory"
EXPRESSIONS_KEY == "wordgotchi.expressions"

MAX_FEEDING_RECORDS == 3
MAX_EXPRESSIONS == 2
MAX_STORAGE_SIZE_BYTES == 16
BATCH_SIZE == 2

(* Bounds of the exploration. *)
MaxSaves == 4
MaxEnvEvents == 2
QuotaChars == 12

Keys == {GOTCHI_KEY, FEEDING_HISTORY_KEY, EXPRESSIONS_KEY}

----------------------------------------------------------------------------
(* JavaScript values and their JSON texts.                                 *)
(*                                                                         *)
(* A pet state is the tuple <<id, stage, feedingCount, joy, createdAt>>    *)
(* (joy in tenths stands for the emotion vector); a feeding record or an   *)
(* expression is the number of the save call that produced it.  A stored   *)
(* text is [form, body, pretty]: form "object" / "array" for the output of *)
(* JSON.stringify, "garbage" for text JSON.parse rejects, "empty" for the  *)
(* empty string and "absent" when getItem returns null.                    *)

NaN == 0 - 1
JSONNull == 0 - 2

NoItem == [form |-> "absent", body |-> <<>>, pretty |-> FALSE]
EmptyText == [form |-> "empty", body |-> <<>>, pretty |-> FALSE]
GarbageText == [form |-> "garbage", body |-> <<>>, pretty |-> FALSE]
EmptyObjectText == [form |-> "object", body |-> <<>>, pretty |-> FALSE]

NullGotchi == <<>>

\* JSON.stringify of a number: NaN (and the infinities) are written as null.
JSONNumber(n) == IF n = NaN THEN JSONNull ELSE n

\* JSON.stringify(state) for a pet state.
JSONStringifyGotchi(g) ==
    [form |-> "object", body |-> [i \in 1..Len(g) |-> JSONNumber(g[i])], pretty |-> FALSE]

\* JSON.stringify(list) for a list of records.
JSONStringifyList(list) == [form |-> "array", body |-> list, pretty |-> FALSE]

\* JSON.parse throws a SyntaxError on these texts.
JSONParseThrows(t) == t.form \in {"garbage", "empty"}

\* Array.isArray(JSON.parse(t))
IsArrayText(t) == t.form = "array"

\* !serialized : getItem returned null or the empty string
IsFalsyText(t) == t.form \in {"absent", "empty"}

\* isValidGotchiState accepting stage 1 only.
isValidGotchiState_StageOneOnly(t) ==
    /\ t.form = "object"
    /\ Len(t.body) = 5
    /\ t.body[1] # JSONNull
    /\ t.body[2] = 1
    /\ t.body[3] # JSONNull
    /\ t.body[5] # JSONNull

\* isValidGotchiState with the test of the stage left out.
isValidGotchiState_StageUnchecked(t) ==
    /\ t.form = "object"
    /\ Len(t.body) = 5
    /\ t.body[1] # JSONNull
    /\ t.body[3] # JSONNull
    /\ t.body[5] # JSONNull

\* isValidGotchiState checking only that the value is an object.
isValidGotchiState_AnyObject(t) == t.form = "object"

\* isValidGotchiState applied to JSON.parse(t)
isValidGotchiState(t) ==
    /\ t.form = "object"
    /\ Len(t.body) = 5
    /\ t.body[1] # JSONNull                \* typeof state.id === 'string'
    /\ t.body[2] \in {1, 2}                \* state.stage === 1 || state.stage === 2
    /\ t.body[3] # JSONNull                \* typeof state.feedingCount === 'number'
    /\ t.body[5] # JSONNull                \* typeof state.createdAt === 'number'

\* slice(-n) read as "the last n elements" for n = 0 too.
SliceLast_ZeroKeepsNone(s, n) ==
    IF n >= Len(s) THEN s ELSE SubSeq(s, Len(s) - n + 1, Len(s))

\* Array.prototype.slice(-n): the last n elements; slice(-0) is slice(0), the
\* whole array.
SliceLast(s, n) ==
    IF n = 0 \/ n >= Len(s) THEN s ELSE SubSeq(s, Len(s) - n + 1, Len(s))

\* Math.floor(n * 0.8)
KeepCount(n) == (n * 4) \div 5

----------------------------------------------------------------------------
(* Lengths, in characters, of keys and texts.  One unit stands for the     *)
(* length of a feeding record; an expression (it carries an image) is two  *)
(* units, a pet state two, pretty printing costs one unit per element.     *)

KeyLen(k) == 1

ElementLen(k) == IF k = EXPRESSIONS_KEY THEN 2 ELSE 1

TextLen(k, t) ==
    CASE t.form = "absent" -> 0
      [] t.form = "empty" -> 0
      [] t.form = "garbage" -> 1
      [] t.form = "object" -> IF t.body = <<>> THEN 1 ELSE 2 + (IF t.pretty THEN 1 ELSE 0)
      [] t.form = "array" ->
            1 + Len(t.body) * (ElementLen(k) + (IF t.pretty THEN 1 ELSE 0))

\* Characters the engine's own keys occupy in the browser store.
OwnChars(ls) ==
    LET Cost(k) == IF ls[k].form = "absent" THEN 0 ELSE KeyLen(k) + TextLen(k, ls[k])
    IN  Cost(GOTCHI_KEY) + Cost(FEEDING_HISTORY_KEY) + Cost(EXPRESSIONS_KEY)

\* The name of the exception localStorage.setItem(k, t) throws, "" when it
\* succeeds: the store is broken, or the write would exceed the quota.
SetItemError(st, k, t) ==
    IF st.lsBroken THEN "Error"
    ELSE IF OwnChars([st.localStorage EXCEPT ![k] = t]) + st.otherChars > QuotaChars
         THEN "QuotaExceededError"
         ELSE ""

setItem(st, k, t) == [st EXCEPT !.localStorage[k] = t]

removeItem(st, k) ==
    IF st.lsBroken THEN st ELSE [st EXCEPT !.localStorage[k] = NoItem]

----------------------------------------------------------------------------
(* The engine state the methods work on: the variables above as one record, *)
(* plus the trace of the store writes and capacity calls the current call   *)
(* has made.                                                                *)

Cur ==
    [memoryOnlyMode |-> memoryOnlyMode, memoryStorage |-> memoryStorage,
     gotchiSaveTimer |-> gotchiSaveTimer, feedingSaveTimer |-> feedingSaveTimer,
     expressionSaveTimer |-> expressionSaveTimer, liveTimers |-> liveTimers,
     pendingGotchiState |-> pendingGotchiState,
     pendingFeedingRecords |-> pendingFeedingRecords,
     pendingExpressions |-> pendingExpressions, localStorage |-> localStorage,
     lsBroken |-> lsBroken, otherChars |-> otherChars, trace |-> <<>>]

Note(st, event) == [st EXCEPT !.trace = Append(@, event)]

\* Sequencing: the value of `first` handed to the rest of the method.
Bind(first, rest(_)) == rest(first)

\* TrySetItem with an empty catch block: the exception is lost.
TrySetItem_ErrorSwallowed(st, k, t) ==
    IF SetItemError(st, k, t) = ""
    THEN [st |-> Note(setItem(st, k, t), <<"setItem", k>>), err |-> ""]
    ELSE [st |-> Note(st, <<"setItem throws", k>>), err |-> ""]

\* localStorage.setItem inside a try block: the state it leaves and the name
\* of the exception it threw ("" for none).
TrySetItem(st, k, t) ==
    Bind(SetItemError(st, k, t), LAMBDA err :
        IF err = ""
        THEN [st |-> Note(setItem(st, k, t), <<"setItem", k>>), err |-> ""]
        ELSE [st |-> Note(st, <<"setItem throws", k>>), err |-> err])

\* A statement guarded by a condition inside a try block.
TrySetItemIf(cond, st, k, t) ==
    IF cond THEN TrySetItem(st, k, t) ELSE [st |-> st, err |-> ""]

\* The record kinds of the two append logs: key, cap, and the names of the
\* pending list, of the mirror's list and of the timer handle.
FeedingKind ==
    [key |-> FEEDING_HISTORY_KEY, max |-> MAX_FEEDING_RECORDS,
     pending |-> "pendingFeedingRecords", mem |-> "feedingHistory",
     timer |-> "feedingSaveTimer"]

ExpressionKind ==
    [key |-> EXPRESSIONS_KEY, max |-> MAX_EXPRESSIONS,
     pending |-> "pendingExpressions", mem |-> "expressions",
     timer |-> "expressionSaveTimer"]

----------------------------------------------------------------------------
(* Timers of the event loop. *)

\* clearTimeout leaving the timeout in the event loop.
clearTimeout_TimeoutKept(st, timer) == st

\* clearTimeout(handle): a no-op on a handle whose timeout has fired.
clearTimeout(st, timer) ==
    [st EXCEPT !.liveTimers = @ \ {<<timer, st[timer]>>}]

\* setTimeout(callback, DEBOUNCE_DELAY_MS), its handle stored in `timer`.
setTimeout(st, timer) ==
    LET used == {p[2] : p \in {q \in st.liveTimers : q[1] = timer}}
        h == CHOOSE i \in 1..(Cardinality(used) + 1) :
                 /\ i \notin used
                 /\ \A j \in 1..(i - 1) : j \in used
    IN  [st EXCEPT ![timer] = h, !.liveTimers = @ \cup {<<timer, h>>}]

----------------------------------------------------------------------------
(* StorageServiceImpl *)

\* The trial write of isLocalStorageAvailable succeeds.
ProbeOk(st) ==
    /\ ~st.lsBroken
    /\ OwnChars(st.localStorage) + st.otherChars + 1 <= QuotaChars

\* isLocalStorageAvailable probing again although memoryOnlyMode is set.
isLocalStorageAvailable_Reprobe(st) ==
    IF ProbeOk(st) THEN [st |-> [st EXCEPT !.memoryOnlyMode = FALSE], ret |-> TRUE]
    ELSE [st |-> [st EXCEPT !.memoryOnlyMode = TRUE], ret |-> FALSE]

isLocalStorageAvailable(st) ==
    IF st.memoryOnlyMode THEN [st |-> st, ret |-> FALSE]
    ELSE IF ProbeOk(st) THEN [st |-> st, ret |-> TRUE]
    ELSE [st |-> [st EXCEPT !.memoryOnlyMode = TRUE], ret |-> FALSE]

\* getFeedingHistory(limit) / getExpressions(limit)
getRecords(st, K, limit) ==
    Bind(isLocalStorageAvailable(st), LAMBDA a :
    Bind(a.st.localStorage[K.key], LAMBDA t :
        IF ~a.ret
        THEN [st |-> a.st, ret |-> SliceLast(a.st.memoryStorage[K.mem], limit)]
        ELSE IF IsFalsyText(t)
        THEN [st |-> a.st, ret |-> <<>>]
        ELSE IF JSONParseThrows(t) \/ ~IsArrayText(t)
        THEN [st |-> removeItem(a.st, K.key), ret |-> <<>>]
        ELSE [st |-> a.st, ret |-> SliceLast(t.body, limit)]))

getFeedingHistory(st, limit) == getRecords(st, FeedingKind, limit)

getExpressions(st, limit) == getRecords(st, ExpressionKind, limit)

\* loadGotchi returning the pending state of the write buffer when there is
\* one.
loadGotchi_PendingFirst(st) ==
    Bind(isLocalStorageAvailable(st), LAMBDA a :
    Bind(a.st.localStorage[GOTCHI_KEY], LAMBDA t :
        IF a.st.pendingGotchiState # NullGotchi
        THEN [st |-> a.st, ret |-> a.st.pendingGotchiState]
        ELSE IF ~a.ret
        THEN [st |-> a.st, ret |-> a.st.memoryStorage.gotchi]
        ELSE IF IsFalsyText(t)
        THEN [st |-> a.st, ret |-> NullGotchi]
        ELSE IF JSONParseThrows(t) \/ ~isValidGotchiState(t)
        THEN [st |-> removeItem(a.st, GOTCHI_KEY), ret |-> NullGotchi]
        ELSE [st |-> a.st, ret |-> t.body]))

\* loadGotchi(): the parsed state as a pet-state tuple, NullGotchi for null.
loadGotchi(st) ==
    Bind(isLocalStorageAvailable(st), LAMBDA a :
    Bind(a.st.localStorage[GOTCHI_KEY], LAMBDA t :
        IF ~a.ret
        THEN [st |-> a.st, ret |-> a.st.memoryStorage.gotchi]
        ELSE IF IsFalsyText(t)
        THEN [st |-> a.st, ret |-> NullGotchi]
        ELSE IF JSONParseThrows(t) \/ ~isValidGotchiState(t)
        THEN [st |-> removeItem(a.st, GOTCHI_KEY), ret |-> NullGotchi]
        ELSE [st |-> a.st, ret |-> t.body]))

\* The bytes checkStorageSize counts for one key.
KeyBytes(ls, k) ==
    IF IsFalsyText(ls[k]) THEN 0 ELSE KeyLen(k) * 2 + TextLen(k, ls[k]) * 2

checkStorageSize(st) ==
    Bind(isLocalStorageAvailable(st), LAMBDA a :
        IF ~a.ret
        THEN [st |-> a.st, ret |-> 0]
        ELSE [st |-> a.st,
              ret |-> KeyBytes(a.st.localStorage, GOTCHI_KEY)
                      + KeyBytes(a.st.localStorage, FEEDING_HISTORY_KEY)
                      + KeyBytes(a.st.localStorage, EXPRESSIONS_KEY)])

isMemoryOnlyMode(st) == st.memoryOnlyMode

\* Pruned keeping the oldest entries: slice(0, keepCount).
Pruned_Oldest(list) == SubSeq(list, 1, KeepCount(Len(list)))

\* The list pruneOldData keeps: slice(-Math.floor(length * 0.8)).
Pruned(list) == SliceLast(list, KeepCount(Len(list)))

\* pruneOldData(): keep the newest 80% of each log.  In the persistent branch
\* an exception of the first setItem skips the second log.
pruneOldData(st) ==
    Bind(isLocalStorageAvailable(Note(st, <<"pruneOldData">>)), LAMBDA a :
        IF ~a.ret
        THEN [a.st EXCEPT !.memoryStorage.feedingHistory = Pruned(@),
                          !.memoryStorage.expressions = Pruned(@)]
        ELSE
    Bind(getFeedingHistory(a.st, MAX_FEEDING_RECORDS), LAMBDA f :
    Bind(TrySetItem(f.st, FEEDING_HISTORY_KEY, JSONStringifyList(Pruned(f.ret))), LAMBDA wf :
        IF wf.err # "" THEN wf.st
        ELSE
    Bind(getExpressions(wf.st, MAX_EXPRESSIONS), LAMBDA e :
        TrySetItem(e.st, EXPRESSIONS_KEY, JSONStringifyList(Pruned(e.ret))).st))))

\* compressStoredData(): rewrite the three keys with JSON.stringify.
compressStoredData(st) ==
    Bind(isLocalStorageAvailable(Note(st, <<"compressStoredData">>)), LAMBDA a :
        IF ~a.ret THEN a.st
        ELSE
    Bind(getFeedingHistory(a.st, MAX_FEEDING_RECORDS), LAMBDA f :
    Bind(TrySetItemIf(Len(f.ret) > 0, f.st, FEEDING_HISTORY_KEY,
                      JSONStringifyList(f.ret)), LAMBDA wf :
        IF wf.err # "" THEN wf.st
        ELSE
    Bind(getExpressions(wf.st, MAX_EXPRESSIONS), LAMBDA e :
    Bind(TrySetItemIf(Len(e.ret) > 0, e.st, EXPRESSIONS_KEY,
                      JSONStringifyList(e.ret)), LAMBDA we :
        IF we.err # "" THEN we.st
        ELSE
    Bind(loadGotchi(we.st), LAMBDA g :
        TrySetItemIf(g.ret # NullGotchi, g.st, GOTCHI_KEY,
                     JSONStringifyGotchi(g.ret)).st))))))

checkAndPruneIfNeeded(st) ==
    Bind(isLocalStorageAvailable(Note(st, <<"checkAndPruneIfNeeded">>)), LAMBDA a :
        IF ~a.ret THEN a.st
        ELSE
    Bind(checkStorageSize(a.st), LAMBDA c :
    Bind(IF c.ret * 5 > MAX_STORAGE_SIZE_BYTES * 4 /\ c.ret <= MAX_STORAGE_SIZE_BYTES
         THEN compressStoredData(c.st)
         ELSE c.st, LAMBDA s1 :
    Bind(checkStorageSize(s1), LAMBDA c2 :
        IF c2.ret > MAX_STORAGE_SIZE_BYTES THEN pruneOldData(c2.st) ELSE c2.st))))

\* A save that leaves the timeout scheduled before in the event loop.
clearIfSet_Skipped(st, timer) == st

\* if (timer) clearTimeout(timer), in saveGotchi / saveFeedingRecord / saveExpression
clearIfSet(st, timer) == IF st[timer] # 0 THEN clearTimeout(st, timer) ELSE st

\* cancelTimer forgetting the handle without clearing the timeout.
cancelTimer_HandleOnly(st, timer) == [st EXCEPT ![timer] = 0]

\* if (timer) { clearTimeout(timer); timer = null }, in the flush methods
cancelTimer(st, timer) ==
    IF st[timer] # 0 THEN [clearTimeout(st, timer) EXCEPT ![timer] = 0] ELSE st

\* saveGotchi scheduling a new timeout without clearing the one before.
saveGotchi_NoClear(st, state) ==
    Bind(isLocalStorageAvailable([st EXCEPT !.pendingGotchiState = state]), LAMBDA a :
        IF ~a.ret
        THEN [a.st EXCEPT !.memoryStorage.gotchi = state]
        ELSE setTimeout(a.st, "gotchiSaveTimer"))

\* saveGotchi keeping the state only in the write buffer when the store is
\* unavailable.
saveGotchi_MirrorSkipped(st, state) ==
    Bind(isLocalStorageAvailable([st EXCEPT !.pendingGotchiState = state]), LAMBDA a :
        IF ~a.ret
        THEN a.st
        ELSE setTimeout(clearIfSet(a.st, "gotchiSaveTimer"), "gotchiSaveTimer"))

\* saveGotchi(state)
saveGotchi(st, state) ==
    Bind(isLocalStorageAvailable([st EXCEPT !.pendingGotchiState = state]), LAMBDA a :
        IF ~a.ret
        THEN [a.st EXCEPT !.memoryStorage.gotchi = state]
        ELSE setTimeout(clearIfSet(a.st, "gotchiSaveTimer"), "gotchiSaveTimer"))

\* The catch blocks of the timer callback that give up on the browser store.
gotchiFallback(st) ==
    [st EXCEPT !.memoryOnlyMode = TRUE,
               !.memoryStorage.gotchi =
                    IF st.pendingGotchiState # NullGotchi THEN st.pendingGotchiState ELSE @,
               !.pendingGotchiState = NullGotchi]

\* The callback saveGotchi hands to setTimeout.
gotchiTimerCallback(st) ==
    IF st.pendingGotchiState = NullGotchi THEN st
    ELSE
    Bind(TrySetItem(st, GOTCHI_KEY, JSONStringifyGotchi(st.pendingGotchiState)), LAMBDA w :
        IF w.err = ""
        THEN [checkAndPruneIfNeeded(w.st) EXCEPT !.pendingGotchiState = NullGotchi]
        ELSE IF w.err = "QuotaExceededError"
        THEN
    Bind(pruneOldData(w.st), LAMBDA p :
    Bind(TrySetItem(p, GOTCHI_KEY, JSONStringifyGotchi(p.pendingGotchiState)), LAMBDA w2 :
        IF w2.err = ""
        THEN [w2.st EXCEPT !.pendingGotchiState = NullGotchi]
        ELSE gotchiFallback(w2.st)))
        ELSE gotchiFallback(w.st))

\* flushGotchiState()
flushGotchiState(st) ==
    Bind(cancelTimer(st, "gotchiSaveTimer"), LAMBDA s0 :
        IF s0.pendingGotchiState = NullGotchi THEN s0
        ELSE
    Bind(isLocalStorageAvailable(s0), LAMBDA a :
        IF ~a.ret
        THEN [a.st EXCEPT !.memoryStorage.gotchi = s0.pendingGotchiState,
                          !.pendingGotchiState = NullGotchi]
        ELSE
    Bind(TrySetItem(a.st, GOTCHI_KEY, JSONStringifyGotchi(s0.pendingGotchiState)), LAMBDA w :
        IF w.err = ""
        THEN [w.st EXCEPT !.pendingGotchiState = NullGotchi]
        ELSE [w.st EXCEPT !.memoryStorage.gotchi = s0.pendingGotchiState,
                          !.pendingGotchiState = NullGotchi])))

\* The memory branches with the slice(-MAX) left out.
PushCapped_Uncapped(list, items, max) == list \o items

\* The mirror's list after push(...items) and the cap of the memory branches.
PushCapped(list, items, max) ==
    IF Len(list \o items) > max THEN SliceLast(list \o items, max) ELSE list \o items

\* The catch blocks switching the mode without moving the pending records.
recordsFallback_PendingKept(st, K) == [st EXCEPT !.memoryOnlyMode = TRUE]

\* The catch blocks of flushFeedingRecords / flushExpressions that give up on
\* the browser store.
recordsFallback(st, K) ==
    [st EXCEPT !.memoryOnlyMode = TRUE,
               !.memoryStorage[K.mem] = @ \o st[K.pending],
               ![K.pending] = <<>>]

\* writeRecords putting the pending records before the stored history.
writeRecords_PendingFirst(h, K) ==
    TrySetItem(h.st, K.key, JSONStringifyList(SliceLast(h.st[K.pending] \o h.ret, K.max)))

\* writeRecords with the slice(-MAX) left out.
writeRecords_Untrimmed(h, K) ==
    TrySetItem(h.st, K.key, JSONStringifyList(h.ret \o h.st[K.pending]))

\* history.push(...pending); slice(-MAX); JSON.stringify; setItem
writeRecords(h, K) ==
    TrySetItem(h.st, K.key, JSONStringifyList(SliceLast(h.ret \o h.st[K.pending], K.max)))

\* flushFeedingRecords() / flushExpressions()
flushRecords(st, K) ==
    Bind(cancelTimer(st, K.timer), LAMBDA s0 :
        IF s0[K.pending] = <<>> THEN s0
        ELSE
    Bind(isLocalStorageAvailable(s0), LAMBDA a :
        IF ~a.ret
        THEN [a.st EXCEPT !.memoryStorage[K.mem] = PushCapped(@, s0[K.pending], K.max),
                          ![K.pending] = <<>>]
        ELSE
    Bind(writeRecords(getRecords(a.st, K, K.max), K), LAMBDA w :
        IF w.err = ""
        THEN [checkAndPruneIfNeeded(w.st) EXCEPT ![K.pending] = <<>>]
        ELSE IF w.err = "QuotaExceededError"
        THEN
    Bind(writeRecords(getRecords(pruneOldData(w.st), K, K.max), K), LAMBDA w2 :
        IF w2.err = ""
        THEN [w2.st EXCEPT ![K.pending] = <<>>]
        ELSE recordsFallback(w2.st, K))
        ELSE recordsFallback(w.st, K))))

flushFeedingRecords(st) == flushRecords(st, FeedingKind)

flushExpressions(st) == flushRecords(st, ExpressionKind)

\* saveRecord flushing only once the pending list exceeds BATCH_SIZE.
saveRecord_LateBatch(st, K, record) ==
    Bind(isLocalStorageAvailable([st EXCEPT ![K.pending] = Append(@, record)]), LAMBDA a :
        IF ~a.ret
        THEN [a.st EXCEPT !.memoryStorage[K.mem] = PushCapped(@, <<record>>, K.max),
                          ![K.pending] = <<>>]
        ELSE
    Bind(clearIfSet(a.st, K.timer), LAMBDA s2 :
        IF Len(s2[K.pending]) > BATCH_SIZE
        THEN flushRecords(s2, K)
        ELSE setTimeout(s2, K.timer)))

\* saveFeedingRecord(record) / saveExpression(expression)
saveRecord(st, K, record) ==
    Bind(isLocalStorageAvailable([st EXCEPT ![K.pending] = Append(@, record)]), LAMBDA a :
        IF ~a.ret
        THEN [a.st EXCEPT !.memoryStorage[K.mem] = PushCapped(@, <<record>>, K.max),
                          ![K.pending] = <<>>]
        ELSE
    Bind(clearIfSet(a.st, K.timer), LAMBDA s2 :
        IF Len(s2[K.pending]) >= BATCH_SIZE
        THEN flushRecords(s2, K)
        ELSE setTimeout(s2, K.timer)))

saveFeedingRecord(st, record) == saveRecord(st, FeedingKind, record)

saveExpression(st, expression) == saveRecord(st, ExpressionKind, expression)

\* flushAll()
flushAll(st) == flushExpressions(flushFeedingRecords(flushGotchiState(st)))

----------------------------------------------------------------------------
(* exportData / importData.  A document text is                            *)
(* [form |-> "document", gotchi, feedingHistory, expressions]: the pet as  *)
(* the body of its JSON object (<<>> for null) and the two lists.          *)

\* JSON.stringify of the export document.
JSONStringifyDocument(g, f, e) ==
    [form |-> "document",
     gotchi |-> IF g = NullGotchi THEN <<>> ELSE JSONStringifyGotchi(g).body,
     feedingHistory |-> f,
     expressions |-> e]

\* The pet of a parsed document, as the object the validation looks at.
DocumentGotchi(text) == [form |-> "object", body |-> text.gotchi, pretty |-> FALSE]

\* exportData(): flushAll, then the pet, the full feeding history and the
\* full expressions as one document.
exportData(st) ==
    Bind(loadGotchi(flushAll(st)), LAMBDA g :
    Bind(getFeedingHistory(g.st, MAX_FEEDING_RECORDS), LAMBDA f :
    Bind(getExpressions(f.st, MAX_EXPRESSIONS), LAMBDA e :
        [st |-> e.st, ret |-> JSONStringifyDocument(g.ret, f.ret, e.ret)])))

\* The import accepts the text: it parses, and its pet passes the structural
\* validation of loadGotchi.
ImportAccepts(text) ==
    /\ ~JSONParseThrows(text)
    /\ text.form = "document"
    /\ isValidGotchiState(DocumentGotchi(text))

\* The replacement of the three stores by the document's content: of the
\* mirror when the browser store is unavailable, else of the three keys, a
\* write that throws ending the import with false.
replaceStores(st, text) ==
    Bind(isLocalStorageAvailable(st), LAMBDA a :
        IF ~a.ret
        THEN [st |-> [a.st EXCEPT !.memoryStorage =
                        [gotchi |-> text.gotchi,
                         feedingHistory |-> text.feedingHistory,
                         expressions |-> text.expressions]],
              ret |-> TRUE]
        ELSE
    Bind(TrySetItem(a.st, GOTCHI_KEY, JSONStringifyGotchi(text.gotchi)), LAMBDA wg :
        IF wg.err # "" THEN [st |-> wg.st, ret |-> FALSE]
        ELSE
    Bind(TrySetItem(wg.st, FEEDING_HISTORY_KEY,
                    JSONStringifyList(text.feedingHistory)), LAMBDA wf :
        IF wf.err # "" THEN [st |-> wf.st, ret |-> FALSE]
        ELSE
    Bind(TrySetItem(wf.st, EXPRESSIONS_KEY,
                    JSONStringifyList(text.expressions)), LAMBDA we :
        [st |-> we.st, ret |-> we.err = ""]))))

\* importData(text): parse, validate, and only then flush what is pending
\* and replace the stores.
importData(st, text) ==
    IF ~ImportAccepts(text)
    THEN [st |-> st, ret |-> FALSE]
    ELSE replaceStores(flushAll(st), text)

----------------------------------------------------------------------------
(* GotchiContext, Canvas and EvolutionAnimation.                           *)
(*                                                                         *)
(* feedWords, updateEmotions, evolveGotchi and completeEvolutionAnimation  *)
(* are closures over the `state` of the render that created them: a call   *)
(* made after an await or from a timer works on the state.gotchi of that   *)
(* render, which is handed to the operators below as `closure`.            *)

\* The feeding count at which processFeedingCompletion calls evolveGotchi.
EVOLUTION_FEEDING_COUNT == 10

Stage(g) == g[2]

FeedingCount(g) == g[3]

\* processFeedingCompletion is not running.
NotProcessing == [pc |-> "idle", gotchi |-> NullGotchi]

\* createNewGotchi()
createNewGotchi == <<1, 1, 0, 0, 1>>

\* applyEmotionDecay, on the joy of a pet, for a whole number of days: 5% a day.
applyEmotionDecay(g, daysSince) ==
    IF daysSince = 0 THEN g ELSE [g EXCEPT ![4] = (@ * 95) \div 100]

\* mergeEmotions with the Math.min left out.
mergeEmotions_Unclamped(current, newEmotions) == current + newEmotions

\* mergeEmotions: Math.min(1.0, current + new), in tenths.
mergeEmotions(current, newEmotions) ==
    IF current + newEmotions > 10 THEN 10 ELSE current + newEmotions

\* feedWords: the updatedGotchi it saves and dispatches.
feedWordsGotchi(closure, emotionAnalysis) ==
    [closure EXCEPT ![3] = @ + 1, ![4] = mergeEmotions(@, emotionAnalysis)]

\* completeEvolutionAnimation: the updatedGotchi it saves and dispatches.
completeEvolutionGotchi(closure) == [closure EXCEPT ![2] = 2]

\* Step 5 of processFeedingCompletion: gotchi.stage === 1 && newFeedingCount >= 10
ShouldEvolve(closure) ==
    Stage(closure) = 1 /\ FeedingCount(closure) + 1 >= EVOLUTION_FEEDING_COUNT

\* The provider has rendered with state.gotchi = g: a mounted
\* EvolutionAnimation gets a new onComplete, its effect runs again and starts
\* one more animation loop.
Rerendered(timers, mounted, g) == IF mounted THEN Append(timers, g) ELSE timers

----------------------------------------------------------------------------
(* ClaudeAPIClient: analyzeEmotion and generatePoetry over                 *)
(* makeRequestWithRetry.  Delays are in milliseconds; emotion values are   *)
(* in hundredths, an emotion vector is <<joy, trust>>: joy stands for the  *)
(* six emotions whose neutral value is 0.14.  A number that may be NaN is  *)
(* [nan, v].                                                               *)

Min(a, b) == IF a <= b THEN a ELSE b

Max(a, b) == IF a >= b THEN a ELSE b

emotionRetryConfig ==
    [maxRetries |-> 3, initialDelay |-> 1000, maxDelay |-> 4000, timeout |-> 30000]

poetryRetryConfig ==
    [maxRetries |-> 3, initialDelay |-> 1000, maxDelay |-> 4000, timeout |-> 30000]

\* The retry configuration analyzeEmotion / generatePoetry hand over.
retryConfigOf(caller) ==
    IF caller = "analyzeEmotion" THEN emotionRetryConfig ELSE poetryRetryConfig

Number(n) == [nan |-> FALSE, v |-> n]

NotANumber == [nan |-> TRUE, v |-> 0]

\* parseFloat(String(value)) of a value that is not a number: the number a
\* string starts with, NaN for any other string, for undefined and for null.
parseFloatOfString(value) ==
    IF value.type = "numericString" THEN Number(value.v) ELSE NotANumber

\* normalizeEmotionValue without the clamp.
normalizeEmotionValue_Unclamped(value) ==
    LET num == IF value.type = "number" THEN Number(value.v)
               ELSE parseFloatOfString(value)
    IN  IF num.nan THEN 0 ELSE num.v

\* normalizeEmotionValue(value): Math.max(0, Math.min(1, num)), 0 for NaN.
normalizeEmotionValue(value) ==
    LET num == IF value.type = "number" THEN Number(value.v)
               ELSE parseFloatOfString(value)
    IN  IF num.nan THEN 0 ELSE Max(0, Min(100, num.v))

getNeutralEmotions == <<14, 16>>

\* parseEmotionResponse(responseText): throws when the text holds no {...}
\* or JSON.parse throws on it.
parseEmotionResponse(responseText) ==
    IF responseText.form # "json"
    THEN [threw |-> TRUE, ret |-> <<>>]
    ELSE [threw |-> FALSE,
          ret |-> <<normalizeEmotionValue(responseText.joy),
                    normalizeEmotionValue(responseText.trust)>>]

\* parsePoetryResponse: throws unless the text has 3 to 5 non-empty lines.
parsePoetryResponse(responseText) ==
    IF responseText.form # "poem" \/ responseText.lines < 3 \/ responseText.lines > 5
    THEN [threw |-> TRUE, ret |-> <<>>]
    ELSE [threw |-> FALSE, ret |-> <<responseText.lines>>]

NoResponse == [form |-> "none"]

\* No call has been made.
NoCall ==
    [pc |-> "idle", caller |-> "none", attempt |-> 0, delay |-> 0, slept |-> <<>>,
     requests |-> 0, retry |-> "none", response |-> NoResponse,
     settled |-> "none", ret |-> <<>>, calls |-> 0]

\* makeRequestWithRetry is entered: lastError = null, delay = initialDelay,
\* attempt = 0 and the first makeRequest is awaited.
makeRequestWithRetry(c, caller) ==
    [pc |-> "makeRequest", caller |-> caller, attempt |-> 0,
     delay |-> retryConfigOf(caller).initialDelay, slept |-> <<>>,
     requests |-> 1, retry |-> "running", response |-> NoResponse,
     settled |-> "pending", ret |-> <<>>, calls |-> c.calls + 1]

\* The condition of the break: this was the last attempt.
lastAttempt_OneMore(c) == c.attempt = retryConfigOf(c.caller).maxRetries + 1

lastAttempt(c) == c.attempt = retryConfigOf(c.caller).maxRetries

\* analyzeEmotion after makeRequestWithRetry has returned `response` or has
\* thrown: the try block around the request and the parsing, and its catch.
analyzeEmotionSettles(c, threw, response) ==
    LET p == parseEmotionResponse(response)
    IN  [c EXCEPT !.pc = "done",
                  !.retry = IF threw THEN "thrown" ELSE "returned",
                  !.response = response,
                  !.settled = "resolved",
                  !.ret = IF threw \/ p.threw THEN getNeutralEmotions ELSE p.ret]

\* generatePoetry after makeRequestWithRetry has returned or thrown: no try
\* block, the promise is rejected with what was thrown.
generatePoetrySettles(c, threw, response) ==
    LET p == parsePoetryResponse(response)
    IN  [c EXCEPT !.pc = "done",
                  !.retry = IF threw THEN "thrown" ELSE "returned",
                  !.response = response,
                  !.settled = IF threw \/ p.threw THEN "rejected" ELSE "resolved",
                  !.ret = IF threw \/ p.threw THEN <<>> ELSE p.ret]

callerSettles(c, threw, response) ==
    IF c.caller = "analyzeEmotion" THEN analyzeEmotionSettles(c, threw, response)
    ELSE generatePoetrySettles(c, threw, response)

----------------------------------------------------------------------------
(* Inputs *)

\* Pet states handed to saveGotchi: a new stage-1 pet and an evolved pet.
ValidGotchiStates == {<<1, 1, 0, 0, 1>>, <<1, 2, 10, 10, 1>>}

GotchiInputs == ValidGotchiStates

\* The JSON text of an object that has the fields of a pet state and a stage
\* that does not exist.
StageThreeText == [form |-> "object", body |-> <<1, 3, 0, 0, 1>>, pretty |-> FALSE]

\* Texts written under a key behind the engine's back.
CorruptTexts == {GarbageText, EmptyText, EmptyObjectText, StageThreeText}

\* Limits handed to getFeedingHistory / getExpressions.
Limits == 0..(MAX_FEEDING_RECORDS + 1)

\* Space other keys of the origin may take: none, enough to leave room for a
\* few records, and all but the room for the availability probe.
OtherLevels == {0, QuotaChars - 7, QuotaChars - 2}

\* Records of imported documents, told apart from the records the save calls
\* number from 1.
ImportedFeeding == 8
ImportedExpression == 9

\* Texts handed to importData: not JSON, a document with an incomplete pet,
\* a document without a pet, and a valid document.
InvalidImportTexts ==
    {GarbageText,
     [form |-> "document", gotchi |-> <<1>>, feedingHistory |-> <<>>, expressions |-> <<>>],
     [form |-> "document", gotchi |-> <<>>, feedingHistory |-> <<ImportedFeeding>>,
      expressions |-> <<>>]}

ValidImportTexts ==
    {JSONStringifyDocument(<<2, 2, 10, 5, 1>>, <<ImportedFeeding>>, <<ImportedExpression>>)}

ImportTexts == InvalidImportTexts \cup ValidImportTexts

\* Bounds of the exploration of the React side.
MaxFeedings == 11
MaxEmotionUpdates == 1

\* Joy, in tenths, of the emotion analyses and of updateEmotions.
EmotionInputs == {1}

\* Whole days between two sessions.
DaysSince == {0, 1}

----------------------------------------------------------------------------
(* The state machine *)

\* The storage engine is left in state st.
ApplyEngine(st) ==
    /\ memoryOnlyMode' = st.memoryOnlyMode
    /\ memoryStorage' = st.memoryStorage
    /\ gotchiSaveTimer' = st.gotchiSaveTimer
    /\ feedingSaveTimer' = st.feedingSaveTimer
    /\ expressionSaveTimer' = st.expressionSaveTimer
    /\ liveTimers' = st.liveTimers
    /\ pendingGotchiState' = st.pendingGotchiState
    /\ pendingFeedingRecords' = st.pendingFeedingRecords
    /\ pendingExpressions' = st.pendingExpressions
    /\ localStorage' = st.localStorage
    /\ lsBroken' = st.lsBroken
    /\ otherChars' = st.otherChars
    /\ UNCHANGED claude

\* A call on the storage engine alone: the React side is not involved.
Apply(st) == ApplyEngine(st) /\ UNCHANGED ctxVars

Called(op, arg, st) ==
    lastOp' = [op |-> op, arg |-> arg, trace |-> st.trace]

NoSave == UNCHANGED <<nFeedings, nExpressions, nGotchiSaves>>

SavesLeft == nFeedings + nExpressions + nGotchiSaves < MaxSaves

EnvEvent ==
    /\ nEnvEvents < MaxEnvEvents
    /\ nEnvEvents' = nEnvEvents + 1
    /\ NoSave

Init ==
    /\ memoryOnlyMode = FALSE
    /\ memoryStorage = [gotchi |-> NullGotchi, feedingHistory |-> <<>>, expressions |-> <<>>]
    /\ gotchiSaveTimer = 0
    /\ feedingSaveTimer = 0
    /\ expressionSaveTimer = 0
    /\ liveTimers = {}
    /\ pendingGotchiState = NullGotchi
    /\ pendingFeedingRecords = <<>>
    /\ pendingExpressions = <<>>
    /\ localStorage = [k \in Keys |-> NoItem]
    /\ lsBroken = FALSE
    /\ otherChars = 0
    /\ nFeedings = 0
    /\ nExpressions = 0
    /\ nGotchiSaves = 0
    /\ nEnvEvents = 0
    /\ lastOp = [op |-> "init", arg |-> <<>>, trace |-> <<>>]
    /\ gotchi = NullGotchi
    /\ feedingHistory = <<>>
    /\ isLoading = TRUE
    /\ isEvolutionAnimationPlaying = FALSE
    /\ showMessage = FALSE
    /\ onCompleteTimers = <<>>
    /\ processFeeding = NotProcessing
    /\ nEvolutions = 0
    /\ nEmotionUpdates = 0
    /\ claude = NoCall

SaveGotchi ==
    /\ SavesLeft
    /\ \E g \in GotchiInputs :
        LET st == saveGotchi(Cur, g)
        IN  /\ Apply(st)
            /\ Called("saveGotchi", g, st)
    /\ nGotchiSaves' = nGotchiSaves + 1
    /\ UNCHANGED <<nFeedings, nExpressions, nEnvEvents>>

SaveFeedingRecord ==
    /\ SavesLeft
    /\ LET st == saveFeedingRecord(Cur, nFeedings + 1)
       IN  /\ Apply(st)
           /\ Called("saveFeedingRecord", <<nFeedings + 1>>, st)
    /\ nFeedings' = nFeedings + 1
    /\ UNCHANGED <<nExpressions, nGotchiSaves, nEnvEvents>>

SaveExpression ==
    /\ SavesLeft
    /\ LET st == saveExpression(Cur, nExpressions + 1)
       IN  /\ Apply(st)
           /\ Called("saveExpression", <<nExpressions + 1>>, st)
    /\ nExpressions' = nExpressions + 1
    /\ UNCHANGED <<nFeedings, nGotchiSaves, nEnvEvents>>

\* The event loop runs a timeout that is still live.
GotchiTimerFires ==
    \E h \in 1..2 :
        /\ <<"gotchiSaveTimer", h>> \in liveTimers
        /\ LET st == gotchiTimerCallback(
                        [Cur EXCEPT !.liveTimers = @ \ {<<"gotchiSaveTimer", h>>}])
           IN  /\ Apply(st)
               /\ Called("gotchiTimer", <<>>, st)
        /\ UNCHANGED <<nFeedings, nExpressions, nGotchiSaves, nEnvEvents>>

FeedingTimerFires ==
    \E h \in 1..2 :
        /\ <<"feedingSaveTimer", h>> \in liveTimers
        /\ LET st == flushFeedingRecords(
                        [Cur EXCEPT !.liveTimers = @ \ {<<"feedingSaveTimer", h>>}])
           IN  /\ Apply(st)
               /\ Called("feedingTimer", <<>>, st)
        /\ UNCHANGED <<nFeedings, nExpressions, nGotchiSaves, nEnvEvents>>

ExpressionTimerFires ==
    \E h \in 1..2 :
        /\ <<"expressionSaveTimer", h>> \in liveTimers
        /\ LET st == flushExpressions(
                        [Cur EXCEPT !.liveTimers = @ \ {<<"expressionSaveTimer", h>>}])
           IN  /\ Apply(st)
               /\ Called("expressionTimer", <<>>, st)
        /\ UNCHANGED <<nFeedings, nExpressions, nGotchiSaves, nEnvEvents>>

FlushAll ==
    /\ LET st == flushAll(Cur)
       IN  /\ Apply(st)
           /\ Called("flushAll", <<>>, st)
    /\ UNCHANGED <<nFeedings, nExpressions, nGotchiSaves, nEnvEvents>>

(* The reading calls: what they return is loadGotchi(Cur).ret and so on;   *)
(* as steps they are the changes they make to the engine, which do not    *)
(* depend on the limit handed to getFeedingHistory / getExpressions.      *)
LoadGotchi ==
    /\ Apply(loadGotchi(Cur).st)
    /\ UNCHANGED <<nFeedings, nExpressions, nGotchiSaves, nEnvEvents, lastOp>>

GetFeedingHistory ==
    /\ Apply(getFeedingHistory(Cur, MAX_FEEDING_RECORDS).st)
    /\ UNCHANGED <<nFeedings, nExpressions, nGotchiSaves, nEnvEvents, lastOp>>

GetExpressions ==
    /\ Apply(getExpressions(Cur, MAX_EXPRESSIONS).st)
    /\ UNCHANGED <<nFeedings, nExpressions, nGotchiSaves, nEnvEvents, lastOp>>

CheckStorageSize ==
    /\ Apply(checkStorageSize(Cur).st)
    /\ UNCHANGED <<nFeedings, nExpressions, nGotchiSaves, nEnvEvents, lastOp>>

PruneOldData ==
    /\ LET st == pruneOldData(Cur)
       IN  /\ Apply(st)
           /\ Called("pruneOldData", <<>>, st)
    /\ UNCHANGED <<nFeedings, nExpressions, nGotchiSaves, nEnvEvents>>

(* The environment *)

StorageBreaks ==
    /\ ~lsBroken
    /\ Apply([Cur EXCEPT !.lsBroken = TRUE])
    /\ Called("storageBreaks", <<>>, Cur)
    /\ EnvEvent

StorageRecovers ==
    /\ lsBroken
    /\ Apply([Cur EXCEPT !.lsBroken = FALSE])
    /\ Called("storageRecovers", <<>>, Cur)
    /\ EnvEvent

OtherDataChanges ==
    \E n \in OtherLevels :
        /\ n # otherChars
        /\ OwnChars(localStorage) + n <= QuotaChars
        /\ Apply([Cur EXCEPT !.otherChars = n])
        /\ Called("otherDataChanges", <<n>>, Cur)
        /\ EnvEvent

\* Something other than the engine writes a text under one of its keys.
ExternalWrite ==
    \E k \in Keys, t \in CorruptTexts :
        /\ nEnvEvents = 0
        /\ ~lsBroken
        /\ localStorage[k] # t
        /\ SetItemError(Cur, k, t) = ""
        /\ Apply(setItem(Cur, k, t))
        /\ Called("externalWrite", <<>>, Cur)
        /\ EnvEvent

Engine ==
    \/ SaveGotchi
    \/ SaveFeedingRecord
    \/ SaveExpression
    \/ GotchiTimerFires
    \/ FeedingTimerFires
    \/ ExpressionTimerFires
    \/ FlushAll
    \/ LoadGotchi
    \/ GetFeedingHistory
    \/ GetExpressions
    \/ CheckStorageSize
    \/ PruneOldData

Next ==
    \/ Engine
    \/ StorageBreaks
    \/ StorageRecovers
    \/ OtherDataChanges

\* The engine over a browser store that fails, recovers and fills up.
Spec == Init /\ [][Next]_vars

NextCorrupt ==
    \/ Engine
    \/ ExternalWrite

\* The engine over a working browser store whose keys get corrupted.
SpecCorrupt == Init /\ [][NextCorrupt]_vars

ExportData ==
    /\ LET x == exportData(Cur)
       IN  /\ Apply(x.st)
           /\ Called("exportData", <<x.ret>>, x.st)
    /\ UNCHANGED <<nFeedings, nExpressions, nGotchiSaves, nEnvEvents>>

ImportData ==
    /\ \E text \in ImportTexts :
        LET i == importData(Cur, text)
        IN  /\ Apply(i.st)
            /\ Called("importData", <<text, i.ret>>, i.st)
    /\ UNCHANGED <<nFeedings, nExpressions, nGotchiSaves, nEnvEvents>>

\* The other keys of the origin change once.
OtherDataChangesOnce == nEnvEvents = 0 /\ OtherDataChanges

NextTransfer ==
    \/ SaveGotchi
    \/ SaveFeedingRecord
    \/ SaveExpression
    \/ GotchiTimerFires
    \/ FeedingTimerFires
    \/ ExpressionTimerFires
    \/ FlushAll
    \/ OtherDataChangesOnce
    \/ ExportData
    \/ ImportData

\* The writing calls of the engine with its export and import, over a browser
\* store that fills up.
SpecTransfer == Init /\ [][NextTransfer]_vars

NextLive ==
    \/ SaveGotchi
    \/ SaveFeedingRecord
    \/ SaveExpression
    \/ GotchiTimerFires
    \/ FeedingTimerFires
    \/ ExpressionTimerFires
    \/ LoadGotchi
    \/ StorageBreaks
    \/ StorageRecovers
    \/ OtherDataChanges

\* The event loop takes a timeout of the timer variable out of its queue and
\* puts none in: the step of GotchiTimerFires, FeedingTimerFires and
\* ExpressionTimerFires (no callback schedules a timeout), seen on the queue
\* alone.
TimeoutTaken(timer) ==
    \E h \in 1..2 :
        /\ <<timer, h>> \in liveTimers
        /\ liveTimers' = liveTimers \ {<<timer, h>>}

\* The event loop runs every timeout it holds: a callback handed to
\* setTimeout and not cleared is eventually called.
TimersFire ==
    /\ WF_liveTimers(TimeoutTaken("gotchiSaveTimer"))
    /\ WF_liveTimers(TimeoutTaken("feedingSaveTimer"))
    /\ WF_liveTimers(TimeoutTaken("expressionSaveTimer"))

\* The save calls of the engine, its debounce timers and loadGotchi over a
\* browser store that fails, recovers and fills up, with an event loop that
\* runs its timeouts.
SpecLive == Init /\ [][NextLive]_vars /\ TimersFire

----------------------------------------------------------------------------
(* The React side: one action per handler, per continuation of the async   *)
(* processFeedingCompletion and per timer of the EvolutionAnimation.       *)

\* useEffect on mount: initializeGotchi().
InitializeGotchi ==
    /\ isLoading
    /\ \E days \in DaysSince :
        LET l == loadGotchi(Cur)
            g == IF l.ret # NullGotchi THEN applyEmotionDecay(l.ret, days)
                 ELSE createNewGotchi
            saved == IF l.ret # NullGotchi /\ days = 0 THEN l.st ELSE saveGotchi(l.st, g)
            f == getFeedingHistory(saved, MAX_FEEDING_RECORDS)
            e == getExpressions(f.st, MAX_EXPRESSIONS)
        IN  /\ ApplyEngine(e.st)
            /\ Called("initializeGotchi", g, e.st)
            /\ gotchi' = g
            /\ feedingHistory' = f.ret
    /\ isLoading' = FALSE
    /\ UNCHANGED <<isEvolutionAnimationPlaying, showMessage, onCompleteTimers,
                   processFeeding, nEvolutions, nEmotionUpdates>>
    /\ UNCHANGED <<nFeedings, nExpressions, nGotchiSaves, nEnvEvents>>

\* Canvas effect: all words are eaten, processFeedingCompletion starts and
\* awaits the emotion analysis.
StartFeedingUpTo(feedings) ==
    /\ gotchi # NullGotchi
    /\ processFeeding.pc = "idle"
    /\ nFeedings < feedings
    /\ processFeeding' = [pc |-> "analyzeEmotion", gotchi |-> gotchi]
    /\ ApplyEngine(Cur)
    /\ Called("processFeedingCompletion", <<>>, Cur)
    /\ UNCHANGED <<gotchi, feedingHistory, isLoading, isEvolutionAnimationPlaying,
                   showMessage, onCompleteTimers, nEvolutions, nEmotionUpdates>>
    /\ UNCHANGED <<nFeedings, nExpressions, nGotchiSaves, nEnvEvents>>

StartFeeding == StartFeedingUpTo(MaxFeedings)

\* The analysis has returned: feedWords(inputText, words, emotionAnalysis),
\* then the await of the emote animation.
FeedWordsOf(analyses) ==
    /\ processFeeding.pc = "analyzeEmotion"
    /\ \E emotionAnalysis \in analyses :
        LET updatedGotchi == feedWordsGotchi(processFeeding.gotchi, emotionAnalysis)
            st == saveFeedingRecord(saveGotchi(Cur, updatedGotchi), nFeedings + 1)
        IN  /\ ApplyEngine(st)
            /\ Called("feedWords", updatedGotchi, st)
            /\ gotchi' = updatedGotchi
            /\ onCompleteTimers' =
                    Rerendered(onCompleteTimers, isEvolutionAnimationPlaying, updatedGotchi)
    /\ feedingHistory' = Append(feedingHistory, nFeedings + 1)
    /\ processFeeding' = [processFeeding EXCEPT !.pc = "playEmoteAnimation"]
    /\ nFeedings' = nFeedings + 1
    /\ UNCHANGED <<isLoading, isEvolutionAnimationPlaying, showMessage, nEvolutions,
                   nEmotionUpdates>>
    /\ UNCHANGED <<nExpressions, nGotchiSaves, nEnvEvents>>

FeedWords == FeedWordsOf(EmotionInputs)

\* The emote animation is over: the evolution check (evolveGotchi dispatches
\* START_EVOLUTION), no expression generation (no Gemini endpoint is
\* configured), and the finally block.
EmoteDone ==
    /\ processFeeding.pc = "playEmoteAnimation"
    /\ IF ShouldEvolve(processFeeding.gotchi)
       THEN /\ isEvolutionAnimationPlaying' = TRUE
            /\ onCompleteTimers' = Append(onCompleteTimers, gotchi)
            /\ nEvolutions' = nEvolutions + 1
       ELSE UNCHANGED <<isEvolutionAnimationPlaying, onCompleteTimers, nEvolutions>>
    /\ processFeeding' = NotProcessing
    /\ ApplyEngine(Cur)
    /\ Called("evolutionCheck", <<ShouldEvolve(processFeeding.gotchi)>>, Cur)
    /\ UNCHANGED <<gotchi, feedingHistory, isLoading, showMessage, nEmotionUpdates>>
    /\ UNCHANGED <<nFeedings, nExpressions, nGotchiSaves, nEnvEvents>>

\* EvolutionAnimation at 30% progress: setShowMessage(true); the effect, which
\* depends on showMessage, runs again and starts a second animation loop.
ShowMessage ==
    /\ isEvolutionAnimationPlaying
    /\ ~showMessage
    /\ showMessage' = TRUE
    /\ onCompleteTimers' = Append(onCompleteTimers, gotchi)
    /\ UNCHANGED <<memoryOnlyMode, memoryStorage, gotchiSaveTimer, feedingSaveTimer,
                   expressionSaveTimer, liveTimers, pendingGotchiState,
                   pendingFeedingRecords, pendingExpressions, localStorage, lsBroken,
                   otherChars, lastOp, claude>>
    /\ UNCHANGED <<gotchi, feedingHistory, isLoading, isEvolutionAnimationPlaying,
                   processFeeding, nEvolutions, nEmotionUpdates>>
    /\ UNCHANGED <<nFeedings, nExpressions, nGotchiSaves, nEnvEvents>>

\* An animation loop has reached its end: onComplete(), that is
\* completeEvolutionAnimation in the closure the loop was started with.  The
\* loops last equally long and end in the order they started; the effect has
\* no cleanup, so a loop also ends after the animation is unmounted.
AnimationCompletes ==
    /\ onCompleteTimers # <<>>
    /\ showMessage \/ ~isEvolutionAnimationPlaying
    /\ LET updatedGotchi == completeEvolutionGotchi(Head(onCompleteTimers))
           st == saveGotchi(Cur, updatedGotchi)
       IN  /\ ApplyEngine(st)
           /\ Called("completeEvolutionAnimation", updatedGotchi, st)
           /\ gotchi' = updatedGotchi
    /\ onCompleteTimers' = Tail(onCompleteTimers)
    /\ isEvolutionAnimationPlaying' = FALSE
    /\ showMessage' = FALSE
    /\ UNCHANGED <<feedingHistory, isLoading, processFeeding, nEvolutions,
                   nEmotionUpdates>>
    /\ UNCHANGED <<nFeedings, nExpressions, nGotchiSaves, nEnvEvents>>

\* updateEmotions(newEmotions), called from the current render.
UpdateEmotions ==
    /\ gotchi # NullGotchi
    /\ nEmotionUpdates < MaxEmotionUpdates
    /\ \E newEmotions \in EmotionInputs :
        LET updatedGotchi == [gotchi EXCEPT ![4] = newEmotions]
            st == saveGotchi(Cur, updatedGotchi)
        IN  /\ ApplyEngine(st)
            /\ Called("updateEmotions", updatedGotchi, st)
            /\ gotchi' = updatedGotchi
            /\ onCompleteTimers' =
                    Rerendered(onCompleteTimers, isEvolutionAnimationPlaying, updatedGotchi)
    /\ nEmotionUpdates' = nEmotionUpdates + 1
    /\ UNCHANGED <<feedingHistory, isLoading, isEvolutionAnimationPlaying, showMessage,
                   processFeeding, nEvolutions>>
    /\ UNCHANGED <<nFeedings, nExpressions, nGotchiSaves, nEnvEvents>>

NextContext ==
    \/ InitializeGotchi
    \/ StartFeeding
    \/ FeedWords
    \/ EmoteDone
    \/ ShowMessage
    \/ AnimationCompletes
    \/ UpdateEmotions
    \/ GotchiTimerFires
    \/ FeedingTimerFires

\* The pet of one page session: GotchiContext, Canvas and EvolutionAnimation
\* over the storage engine.
SpecContext == Init /\ [][NextContext]_vars

\* Joy, in tenths, of the emotion analyses of a session whose feedings
\* differ: nothing, a little, a lot, and the maximum.
AnalysisLevels == {0, 4, 7, 10}

\* Feedings of that session: fewer than an evolution takes.
MaxAnalysedFeedings == 5

StartFeedingAnalysed == StartFeedingUpTo(MaxAnalysedFeedings)

FeedWordsAnalysed == FeedWordsOf(AnalysisLevels)

NextEmotions ==
    \/ InitializeGotchi
    \/ StartFeedingAnalysed
    \/ FeedWordsAnalysed
    \/ EmoteDone
    \/ GotchiTimerFires
    \/ FeedingTimerFires

\* The pet of one page session fed with texts of every emotional weight, up
\* to its evolution.
SpecEmotions == Init /\ [][NextEmotions]_vars

----------------------------------------------------------------------------
(* The Claude client: one action per call and per continuation of the      *)
(* async makeRequestWithRetry.                                             *)

\* Calls of analyzeEmotion / generatePoetry made in one run.
MaxClaudeCalls == 2

\* Values of an emotion key in the JSON of a response: numbers below, in and
\* above the range, strings starting with a number or not, a missing key.
RawValues ==
    {[type |-> "number", v |-> 0 - 50], [type |-> "number", v |-> 30],
     [type |-> "number", v |-> 150], [type |-> "numericString", v |-> 70],
     [type |-> "numericString", v |-> 250], [type |-> "string", v |-> 0],
     [type |-> "undefined", v |-> 0]}

\* Texts of data.content[0].text: an emotion object, a text without braces,
\* braces around something JSON.parse rejects.
EmotionResponses ==
    {[form |-> "json", joy |-> j, trust |-> [type |-> "number", v |-> 50]] : j \in RawValues}
        \cup {[form |-> "text"], [form |-> "malformed"]}

\* Poems of two and of four lines.
PoemResponses == {[form |-> "poem", lines |-> 2], [form |-> "poem", lines |-> 4]}

ResponsesOf(caller) ==
    IF caller = "analyzeEmotion" THEN EmotionResponses ELSE PoemResponses

\* Everything but the Claude client is left alone.
ClaudeOnly ==
    UNCHANGED <<memoryOnlyMode, memoryStorage, gotchiSaveTimer, feedingSaveTimer,
                expressionSaveTimer, liveTimers, pendingGotchiState,
                pendingFeedingRecords, pendingExpressions, localStorage, lsBroken,
                otherChars, nFeedings, nExpressions, nGotchiSaves, nEnvEvents,
                lastOp, ctxVars>>

ClaudeCall(caller) ==
    /\ claude.pc \in {"idle", "done"}
    /\ claude.calls < MaxClaudeCalls
    /\ claude' = makeRequestWithRetry(claude, caller)
    /\ ClaudeOnly

AnalyzeEmotion == ClaudeCall("analyzeEmotion")

GeneratePoetry == ClaudeCall("generatePoetry")

\* makeRequest resolves: makeRequestWithRetry returns the text and its
\* caller runs to its end.
RequestSucceeds ==
    /\ claude.pc = "makeRequest"
    /\ \E response \in ResponsesOf(claude.caller) :
           claude' = callerSettles(claude, FALSE, response)
    /\ ClaudeOnly

\* makeRequest rejects (a network error, a status that is not ok, an empty
\* content, the abort of the timeout): the catch block of the loop.
RequestFails ==
    /\ claude.pc = "makeRequest"
    /\ claude' = IF lastAttempt(claude)
                 THEN callerSettles(claude, TRUE, NoResponse)
                 ELSE [claude EXCEPT !.pc = "sleep", !.slept = Append(@, claude.delay)]
    /\ ClaudeOnly

\* The timeout of sleep(delay) fires: the delay doubles up to maxDelay and
\* the loop makes its next attempt.
SleepDone ==
    /\ claude.pc = "sleep"
    /\ claude' = [claude EXCEPT
                    !.delay = Min(@ * 2, retryConfigOf(claude.caller).maxDelay),
                    !.attempt = @ + 1,
                    !.requests = @ + 1,
                    !.pc = "makeRequest"]
    /\ ClaudeOnly

NextClaude ==
    \/ AnalyzeEmotion
    \/ GeneratePoetry
    \/ RequestSucceeds
    \/ RequestFails
    \/ SleepDone

\* Every request settles (fetch resolves, rejects, or is aborted by the
\* timeout of makeRequest) and the timeout of every sleep fires.
RequestsSettle == WF_claude(RequestSucceeds \/ RequestFails) /\ WF_claude(SleepDone)

\* The Claude client called by a page whose requests succeed or fail.
SpecClaude == Init /\ [][NextClaude]_vars /\ RequestsSettle

----------------------------------------------------------------------------
(* Vocabulary of the properties *)

\* The list a store holds for a record kind: the parsed array of the browser
\* store in persistent mode, the mirror's list in memory-only mode.
PersistedList(K) ==
    IF IsArrayText(localStorage[K.key]) THEN localStorage[K.key].body ELSE <<>>

Content(K) == IF memoryOnlyMode THEN memoryStorage[K.mem] ELSE PersistedList(K)

\* The records saved so far, in save order.
SavedRecords(n) == [i \in 1..n |-> i]

\* The events of the last call's trace.
Events == {lastOp.trace[i] : i \in 1..Len(lastOp.trace)}

Kinds == {FeedingKind, ExpressionKind}

PendingOf(K) ==
    IF K.key = FEEDING_HISTORY_KEY THEN pendingFeedingRecords ELSE pendingExpressions

\* The number of save calls made so far for a record kind.
SavedCount(K) == IF K.key = FEEDING_HISTORY_KEY THEN nFeedings ELSE nExpressions

\* s is what is left of t after dropping some of its oldest elements.
IsSuffix(s, t) == Len(s) <= Len(t) /\ s = SubSeq(t, Len(t) - Len(s) + 1, Len(t))

\* The last n elements of s (none for n = 0).
MostRecent(s, n) == IF n >= Len(s) THEN s ELSE SubSeq(s, Len(s) - n + 1, Len(s))

\* The step is a save call of kind K (the name of the call is tested first: it
\* decides most steps).
SaveOf(K) ==
    IF K.key = FEEDING_HISTORY_KEY
    THEN lastOp'.op = "saveFeedingRecord" /\ SaveFeedingRecord
    ELSE lastOp'.op = "saveExpression" /\ SaveExpression

\* The step is the firing of the debounce timer of kind K.
TimerOf(K) ==
    IF K.key = FEEDING_HISTORY_KEY
    THEN lastOp'.op = "feedingTimer" /\ FeedingTimerFires
    ELSE lastOp'.op = "expressionTimer" /\ ExpressionTimerFires

\* The step is a call of flushAll.
FlushAllStep == lastOp'.op = "flushAll" /\ FlushAll

\* The step is a flush of kind K: its timer fires, flushAll is called, or a
\* save in persistent mode reaches the batch threshold.
FlushOf(K) ==
    \/ FlushAllStep
    \/ TimerOf(K)
    \/ SaveOf(K) /\ ~memoryOnlyMode' /\ PendingOf(K)' = <<>>

\* The records a flush step of kind K has to write: the pending list, with
\* the record of the call when the step is a save.
Flushed(K) ==
    IF SaveOf(K) THEN Append(PendingOf(K), SavedCount(K) + 1) ELSE PendingOf(K)

\* The last setItem of the step for key k threw.
LastWriteThrew(k) ==
    LET t == lastOp'.trace
        idx == {i \in 1..Len(t) : t[i] \in {<<"setItem", k>>, <<"setItem throws", k>>}}
    IN  /\ idx # {}
        /\ t[CHOOSE i \in idx : \A j \in idx : j <= i] = <<"setItem throws", k>>

----------------------------------------------------------------------------
\* C1: for every valid pet state s, saveGotchi(s); flushAll(); loadGotchi()
\* returns s, in persistent and in memory-only mode.
C1_RoundTrip ==
    [][(/\ lastOp.op = "saveGotchi"
        /\ lastOp.arg \in ValidGotchiStates
        /\ lastOp'.op = "flushAll")
       => loadGotchi(Cur').ret = lastOp.arg]_vars

\* C2 as claimed: the stored lists stay within their caps and, once more
\* records than the cap have been saved and flushed, a flush in persistent
\* mode of a store still holding the most recent records leaves it holding
\* exactly the most recently saved cap-many, in save order.
C2_Original ==
    [][\A K \in Kinds :
        (/\ FlushOf(K)
         /\ nEnvEvents' = 0
         /\ ~memoryOnlyMode'
         /\ SavedCount(K)' > K.max
         /\ Content(K) = MostRecent(SavedRecords(SavedCount(K)' - Len(Flushed(K))), K.max))
        => /\ Len(Content(K)') <= K.max
           /\ Content(K)' = MostRecent(SavedRecords(SavedCount(K)'), K.max)]_vars

CapInv ==
    \A K \in Kinds : Len(PersistedList(K)) <= K.max /\ Len(memoryStorage[K.mem]) <= K.max

\* C2 (amended): the stored lists never exceed their caps; every flush leaves
\* the store holding, in save order, its previous content followed by the
\* flushed records less some of the oldest, and exactly the most recent
\* cap-many of them when the flush ends in the mode it started in and
\* pruneOldData has not run in it.
C2_Amended ==
    [][/\ CapInv'
       /\ \A K \in Kinds :
            FlushOf(K) =>
                /\ IsSuffix(Content(K)', Content(K) \o Flushed(K))
                /\ (/\ memoryOnlyMode' = memoryOnlyMode
                    /\ <<"pruneOldData">> \notin Events')
                   => Content(K)' = MostRecent(Content(K) \o Flushed(K), K.max)]_vars

\* More feeding records than the cap have been saved and the last flush has
\* left exactly the most recent cap-many in the store.
C2_Witness ==
    /\ nFeedings > MAX_FEEDING_RECORDS
    /\ pendingFeedingRecords = <<>>
    /\ ~memoryOnlyMode
    /\ <<"setItem", FEEDING_HISTORY_KEY>> \in Events
    /\ PersistedList(FeedingKind) = MostRecent(SavedRecords(nFeedings), MAX_FEEDING_RECORDS)
    /\ Len(PersistedList(FeedingKind)) = MAX_FEEDING_RECORDS

\* C3: whenever a flush (debounce timer, batch threshold or flushAll) of the
\* pet, the feeding history or the expressions cannot write to the browser
\* store, the pending data is in the mirror and the engine is in memory-only
\* mode afterwards, so the next load returns that data.
C3_FailedFlushFallsBack ==
    [][/\ ((GotchiTimerFires \/ FlushAll)
           /\ pendingGotchiState # NullGotchi
           /\ LastWriteThrew(GOTCHI_KEY))
          => /\ memoryOnlyMode'
             /\ loadGotchi(Cur').ret = pendingGotchiState
       /\ \A K \in Kinds :
            ((FlushAllStep \/ TimerOf(K) \/ SaveOf(K))
             /\ LastWriteThrew(K.key))
            => /\ memoryOnlyMode'
               /\ IsSuffix(Flushed(K), getRecords(Cur', K, K.max).ret)]_vars

\* C4: while every write to the browser store fails, a save followed by a
\* load of the same kind returns the saved data (from the mirror), and
\* isMemoryOnlyMode() is true afterwards.
C4_SaveLoadWhenWritesFail ==
    [][/\ (SaveGotchi /\ lsBroken)
          => /\ loadGotchi(Cur').ret = lastOp'.arg
             /\ isMemoryOnlyMode(loadGotchi(Cur').st)
       /\ \A K \in Kinds :
            (SaveOf(K) /\ lsBroken)
            => /\ IsSuffix(<<SavedCount(K) + 1>>, getRecords(Cur', K, K.max).ret)
               /\ isMemoryOnlyMode(getRecords(Cur', K, K.max).st)]_vars

\* Writes fail, the failure was met by a save of a feeding record after a pet
\* had been saved, and both are in the mirror.
C4_Witness ==
    /\ lsBroken
    /\ lastOp.op = "saveFeedingRecord"
    /\ memoryOnlyMode
    /\ memoryStorage.gotchi \in ValidGotchiStates
    /\ localStorage[GOTCHI_KEY] = NoItem
    /\ memoryStorage.feedingHistory = <<nFeedings>>

\* C5: the switch to memory-only mode is one-way: once isMemoryOnlyMode() is
\* true it stays true, and every later read is served from the mirror, not
\* from the browser store.
C5_OneWay ==
    /\ [][memoryOnlyMode => memoryOnlyMode']_vars
    /\ [](memoryOnlyMode
          => /\ loadGotchi(Cur).ret = memoryStorage.gotchi
             /\ isMemoryOnlyMode(loadGotchi(Cur).st)
             /\ \A K \in Kinds :
                   /\ getRecords(Cur, K, K.max).ret = memoryStorage[K.mem]
                   /\ isMemoryOnlyMode(getRecords(Cur, K, K.max).st))

\* The engine is in memory-only mode although the browser store works again
\* and holds a pet other than the mirror's.
C5_Witness ==
    /\ memoryOnlyMode
    /\ ProbeOk(Cur)
    /\ isValidGotchiState(localStorage[GOTCHI_KEY])
    /\ memoryStorage.gotchi # localStorage[GOTCHI_KEY].body

\* C6: after flushAll() returns no debounce timer is scheduled for any record
\* kind, and the pending pet and both pending lists are empty.
C6_FlushAllLeavesNothingPending ==
    [][FlushAll
       => /\ liveTimers' = {}
          /\ gotchiSaveTimer' = 0 /\ feedingSaveTimer' = 0 /\ expressionSaveTimer' = 0
          /\ pendingGotchiState' = NullGotchi
          /\ pendingFeedingRecords' = <<>>
          /\ pendingExpressions' = <<>>]_vars

\* flushAll has just written all three keys: a pet, a feeding record and an
\* expression were pending when it was called.
C6_Witness ==
    /\ lastOp.op = "flushAll"
    /\ {<<"setItem", k>> : k \in Keys} \subseteq Events
    /\ liveTimers = {}
    /\ pendingGotchiState = NullGotchi
    /\ pendingFeedingRecords = <<>>
    /\ pendingExpressions = <<>>

\* The live timeouts of one timer variable.
TimersOf(timer) == {t \in liveTimers : t[1] = timer}

\* C7: in persistent mode every saveGotchi supersedes the pending pet and
\* restarts the debounce timer without writing, so that however many saves
\* precede the firing there is one timeout, and its firing is the one flush of
\* the pet key and writes the last saved value only.
C7_DebouncedPetWrite ==
    [][/\ (SaveGotchi /\ ~memoryOnlyMode')
          => /\ pendingGotchiState' = lastOp'.arg
             /\ TimersOf("gotchiSaveTimer")' = {<<"gotchiSaveTimer", gotchiSaveTimer'>>}
             /\ localStorage' = localStorage
       /\ (GotchiTimerFires /\ ~memoryOnlyMode /\ pendingGotchiState # NullGotchi)
          => /\ TimersOf("gotchiSaveTimer")' = {}
             /\ pendingGotchiState' = NullGotchi
             /\ localStorage'[GOTCHI_KEY] \in
                    {localStorage[GOTCHI_KEY], JSONStringifyGotchi(pendingGotchiState)}
             /\ ~memoryOnlyMode'
                => localStorage'[GOTCHI_KEY] = JSONStringifyGotchi(pendingGotchiState)]_vars

\* Two different pet states were saved and the timer has fired and written
\* the later one.
C7_Witness ==
    /\ nGotchiSaves = 2
    /\ nFeedings = 0 /\ nExpressions = 0 /\ nEnvEvents = 0
    /\ lastOp.op = "gotchiTimer"
    /\ lastOp.trace[1] = <<"setItem", GOTCHI_KEY>>
    /\ isValidGotchiState(localStorage[GOTCHI_KEY])
    /\ TimersOf("gotchiSaveTimer") = {}
    /\ ~memoryOnlyMode

\* C8 as claimed: in persistent mode the save that brings the pending list to
\* the batch size flushes inside the call: when it returns the pending list is
\* empty and all the records of the batch are in the persisted store.
C8_Original ==
    [][\A K \in Kinds :
        (/\ SaveOf(K)
         /\ ~memoryOnlyMode /\ ~memoryOnlyMode'
         /\ nEnvEvents' = 0
         /\ Len(Flushed(K)) >= BATCH_SIZE)
        => /\ PendingOf(K)' = <<>>
           /\ IsSuffix(Flushed(K), PersistedList(K)')]_vars

\* C8 (amended): in persistent mode the save that brings the pending list to
\* the batch size flushes inside the call: when it returns with the engine
\* still in persistent mode, the pending list is empty, no timer is scheduled
\* for the kind, and the persisted store holds all the records of the batch
\* unless pruneOldData ran in that flush, and then the most recent of them.
C8_Amended ==
    [][\A K \in Kinds :
        (/\ SaveOf(K)
         /\ ~memoryOnlyMode /\ ~memoryOnlyMode'
         /\ Len(Flushed(K)) >= BATCH_SIZE)
        => /\ PendingOf(K)' = <<>>
           /\ TimersOf(K.timer)' = {}
           /\ <<"setItem", K.key>> \in Events'
           /\ IF <<"pruneOldData">> \in Events'
              THEN \/ IsSuffix(PersistedList(K)', Flushed(K))
                   \/ IsSuffix(Flushed(K), PersistedList(K)')
              ELSE IsSuffix(Flushed(K), PersistedList(K)')]_vars

\* The save that filled the first batch of feeding records has returned and
\* the batch is in the browser store.
C8_Witness ==
    /\ lastOp.op = "saveFeedingRecord"
    /\ nFeedings = BATCH_SIZE
    /\ ~memoryOnlyMode
    /\ pendingFeedingRecords = <<>>
    /\ TimersOf("feedingSaveTimer") = {}
    /\ PersistedList(FeedingKind) = SavedRecords(BATCH_SIZE)

\* Some setItem of the step threw.
SomeWriteThrew == \E k \in Keys : <<"setItem throws", k>> \in Events'

C9_Kept(list) ==
    IF Len(list) = 1 THEN list ELSE MostRecent(list, (Len(list) * 4) \div 5)

C10_CorruptValueRemoved ==
    (~memoryOnlyMode /\ ProbeOk(Cur))
    => /\ JSONParseThrows(localStorage[GOTCHI_KEY])
          => /\ loadGotchi(Cur).ret = NullGotchi
             /\ loadGotchi(Cur).st.localStorage[GOTCHI_KEY] = NoItem
             /\ \A k \in Keys \ {GOTCHI_KEY} :
                    loadGotchi(Cur).st.localStorage[k] = localStorage[k]
       /\ \A K \in Kinds :
            (/\ localStorage[K.key] # NoItem
             /\ JSONParseThrows(localStorage[K.key]) \/ ~IsArrayText(localStorage[K.key]))
            => /\ getRecords(Cur, K, K.max).ret = <<>>
               /\ getRecords(Cur, K, K.max).st.localStorage[K.key] = NoItem
               /\ \A k \in Keys \ {K.key} :
                    getRecords(Cur, K, K.max).st.localStorage[k] = localStorage[k]

\* The list a read of kind K is served from: the array under the key when the
\* availability probe succeeds, the mirror's list otherwise.
ReadStore(K) ==
    IF isLocalStorageAvailable(Cur).ret THEN PersistedList(K) ELSE memoryStorage[K.mem]

\* C11: for every limit >= 0 and a store of N records, getFeedingHistory(limit)
\* and getExpressions(limit) return exactly min(limit, N) records, the most
\* recent ones, in save order.
C11_LimitedRead ==
    \A K \in Kinds : \A limit \in Limits :
        /\ Len(getRecords(Cur, K, limit).ret) =
                IF limit < Len(ReadStore(K)) THEN limit ELSE Len(ReadStore(K))
        /\ getRecords(Cur, K, limit).ret = MostRecent(ReadStore(K), limit)

\* The step is a flush of some key: a debounce timer fires, flushAll is
\* called, or a save in persistent mode reaches the batch threshold.
FlushStep ==
    \/ lastOp'.op = "gotchiTimer" /\ GotchiTimerFires
    \/ \E K \in Kinds : FlushOf(K)

\* C12: after a flush and the capacity check that follows it have completed
\* in persistent mode, the size checkStorageSize() reports does not exceed
\* the ceiling.
C12_SizeUnderCeiling ==
    [][(/\ FlushStep
        /\ <<"checkAndPruneIfNeeded">> \in Events'
        /\ ~memoryOnlyMode'
        /\ isLocalStorageAvailable(Cur').ret)
       => checkStorageSize(Cur').ret <= MAX_STORAGE_SIZE_BYTES]_vars

\* The event is an attempt to write key k, successful or not.
IsAttempt(event, k) == event \in {<<"setItem", k>>, <<"setItem throws", k>>}

\* The writes pruneOldData makes itself: none in the memory branch, else the
\* feeding history and, unless that write threw, the expressions.
IsPruneWrites(events) ==
    \/ events = <<>>
    \/ Len(events) = 1 /\ IsAttempt(events[1], FEEDING_HISTORY_KEY)
    \/ /\ Len(events) = 2
       /\ events[1] = <<"setItem", FEEDING_HISTORY_KEY>>
       /\ IsAttempt(events[2], EXPRESSIONS_KEY)

\* The calls of the step began with a write of key k that threw
\* QuotaExceededError (the store itself was working).
FirstWriteHitQuota(k) ==
    /\ ~lsBroken
    /\ Len(lastOp'.trace) > 0
    /\ lastOp'.trace[1] = <<"setItem throws", k>>

\* Position n of the trace holds the retry of the write of key k: it follows
\* pruneOldData and the writes pruneOldData made.
IsRetryAt(n, k) ==
    /\ lastOp'.trace[2] = <<"pruneOldData">>
    /\ IsPruneWrites(SubSeq(lastOp'.trace, 3, n - 1))
    /\ IsAttempt(lastOp'.trace[n], k)

\* The step moved pending data of key k to the in-memory mirror.
FellBack(k) ==
    IF k = GOTCHI_KEY
    THEN pendingGotchiState # NullGotchi /\ memoryStorage'.gotchi = pendingGotchiState
         /\ memoryStorage'.gotchi # memoryStorage.gotchi
    ELSE \E K \in Kinds : K.key = k /\ memoryStorage'[K.mem] # memoryStorage[K.mem]

\* C13: when the write of a flush (by a timer, by a full batch or by
\* flushAll) throws QuotaExceededError, pruneOldData runs and the same write
\* is retried, once, and the mirror takes the data only when the retry threw
\* as well.
C13_PruneAndRetryOnce ==
    [][\A k \in Keys :
        (FlushStep /\ FirstWriteHitQuota(k)) =>
            /\ Len(lastOp'.trace) >= 3
            /\ \E n \in 3..Len(lastOp'.trace) :
                    /\ IsRetryAt(n, k)
                    /\ ~FlushAllStep => n = Len(lastOp'.trace)
                    /\ FellBack(k) => lastOp'.trace[n] = <<"setItem throws", k>>]_vars

\* The pet a store holds: the parsed object of the browser store in
\* persistent mode, the mirror's pet in memory-only mode.
PersistedGotchi ==
    IF ~IsFalsyText(localStorage[GOTCHI_KEY]) /\ ~JSONParseThrows(localStorage[GOTCHI_KEY])
    THEN localStorage[GOTCHI_KEY].body
    ELSE NullGotchi

ContentGotchi == IF memoryOnlyMode THEN memoryStorage.gotchi ELSE PersistedGotchi

\* The step is a call of importData / exportData.
ImportStep == lastOp'.op = "importData" /\ ImportData

ExportStep == lastOp'.op = "exportData" /\ ExportData

Range(list) == {list[i] : i \in 1..Len(list)}

\* C15: exportData flushes before it reads: a pet state, a feeding record or
\* an expression that is saved but not yet flushed when exportData is called
\* is in the exported document.
C15_ExportHoldsPending ==
    [][ExportStep =>
            /\ pendingGotchiState # NullGotchi =>
                    lastOp'.arg[1].gotchi = JSONStringifyGotchi(pendingGotchiState).body
            /\ \A K \in Kinds :
                    Range(PendingOf(K)) \subseteq Range(lastOp'.arg[1][K.mem])]_vars

\* localStorage.clear(): every key of the origin is gone.
FreshlyCleared(st) ==
    [st EXCEPT !.localStorage = [k \in Keys |-> NoItem], !.otherChars = 0]

\* The document the last call, an exportData, returned.
Exported == lastOp.arg[1]

\* The cleared store has room for the document and for the trial write of
\* the availability probe (a store in memory-only mode needs none).
HasRoomFor(st, text) ==
    \/ st.memoryOnlyMode
    \/ OwnChars([k \in Keys |->
            IF k = GOTCHI_KEY THEN JSONStringifyGotchi(text.gotchi)
            ELSE IF k = FEEDING_HISTORY_KEY THEN JSONStringifyList(text.feedingHistory)
            ELSE JSONStringifyList(text.expressions)]) + 1 <= QuotaChars

C18_StageNeverDecreases ==
    [][/\ (gotchi # NullGotchi /\ gotchi' # NullGotchi) => Stage(gotchi') >= Stage(gotchi)
       /\ (ContentGotchi # NullGotchi /\ ContentGotchi' # NullGotchi) =>
                Stage(ContentGotchi') >= Stage(ContentGotchi)]_vars

\* The step is the evolution check of a feeding / a call of feedWords.
EvolutionCheckStep == lastOp'.op = "evolutionCheck" /\ EmoteDone

FeedWordsStep == lastOp'.op = "feedWords" /\ FeedWords

\* C19: over the feedings of a new stage-1 pet the transition to stage 2 is
\* triggered exactly once: by the evolution check of the feeding that brings
\* the count to EVOLUTION_FEEDING_COUNT, not before and not again.
C19_EvolutionTriggeredOnce ==
    [][/\ nEvolutions' # nEvolutions =>
                /\ EvolutionCheckStep
                /\ nFeedings = EVOLUTION_FEEDING_COUNT
                /\ nEvolutions = 0
       /\ (EvolutionCheckStep /\ nFeedings = EVOLUTION_FEEDING_COUNT) =>
                nEvolutions' = 1]_vars

\* C20: every completed feeding raises the pet's feedingCount by exactly 1 and
\* appends exactly one feeding record, handed to saveFeedingRecord; after n
\* completed feedings of a new pet feedingCount = n and n records are saved.
C20_OneCountPerFeeding ==
    /\ [][FeedWordsStep =>
            /\ FeedingCount(gotchi') = FeedingCount(gotchi) + 1
            /\ feedingHistory' = Append(feedingHistory, nFeedings')
            /\ lastOp'.arg = gotchi']_vars
    /\ [](~isLoading =>
            /\ FeedingCount(gotchi) = nFeedings
            /\ Len(feedingHistory) = nFeedings)

\* A pet state has the required fields (id, feedingCount, createdAt) and a
\* stage in {1, 2}.
HasRequiredFields(g) ==
    /\ Len(g) = 5
    /\ g[1] # JSONNull
    /\ g[2] \in {1, 2}
    /\ g[3] # JSONNull
    /\ g[5] # JSONNull

\* The browser store holds, under the pet key, a value that parses and is not
\* a pet state with the required fields.
StoredPetFailsValidation ==
    /\ ~IsFalsyText(localStorage[GOTCHI_KEY])
    /\ ~JSONParseThrows(localStorage[GOTCHI_KEY])
    /\ ~HasRequiredFields(localStorage[GOTCHI_KEY].body)

\* C21: in persistent and in memory-only mode loadGotchi() returns absent or
\* a state with the required fields and a stage in {1, 2}; a stored value
\* that fails the validation is deleted from the browser store and absent is
\* returned.
C21_LoadedPetIsValid ==
    /\ loadGotchi(Cur).ret = NullGotchi \/ HasRequiredFields(loadGotchi(Cur).ret)
    /\ (isLocalStorageAvailable(Cur).ret /\ StoredPetFailsValidation)
        => /\ loadGotchi(Cur).ret = NullGotchi
           /\ loadGotchi(Cur).st.localStorage[GOTCHI_KEY] = NoItem

\* The browser store holds a pet of stage 3 next to records of the engine,
\* and a load removes it.
C21_Witness ==
    /\ localStorage[GOTCHI_KEY] = StageThreeText
    /\ isLocalStorageAvailable(Cur).ret
    /\ PersistedList(FeedingKind) # <<>>
    /\ loadGotchi(Cur).ret = NullGotchi
    /\ loadGotchi(Cur).st.localStorage[GOTCHI_KEY] = NoItem

\* The engine is in memory-only mode and a load returns the mirror's pet.
C21_WitnessMirror ==
    /\ memoryOnlyMode
    /\ loadGotchi(Cur).ret # NullGotchi
    /\ loadGotchi(Cur).ret = memoryStorage.gotchi

\* The events of the calls that took the engine to state st.
EventsOf(st) == {st.trace[i] : i \in 1..Len(st.trace)}

\* What getFeedingHistory / getExpressions return after a flushAll called in
\* the state the step leaves.
AfterFlushAll(K) == getRecords(flushAll(Cur'), K, K.max).ret

\* C22: no saved record is lost by a fallback between save and flush: the
\* record handed to a save call and the records still pending at that call
\* are returned by getFeedingHistory / getExpressions after the next
\* flushAll, unless the cap or pruneOldData evicted them, also when the
\* engine has switched to memory-only mode while they were pending.
C22_NoRecordLostByFallback ==
    [][\A K \in Kinds :
        (/\ SaveOf(K)
         /\ SavedCount(K)' <= K.max
         /\ <<"pruneOldData">> \notin Events'
         /\ <<"pruneOldData">> \notin EventsOf(flushAll(Cur')))
        => Range(Flushed(K)) \subseteq Range(AfterFlushAll(K))]_vars

\* The step is the firing of the pet's debounce timer.
GotchiTimerStep == lastOp'.op = "gotchiTimer" /\ GotchiTimerFires

\* C23: a pet state saved in persistent mode whose debounce timer fires only
\* after the engine has switched to memory-only mode is what loadGotchi()
\* returns once that timer has fired.
C23_LateTimerPetIsLoaded ==
    [][(/\ GotchiTimerStep
        /\ memoryOnlyMode
        /\ pendingGotchiState # NullGotchi)
       => loadGotchi(Cur').ret = pendingGotchiState]_vars

\* The step switches the engine to memory-only mode.
SwitchStep == ~memoryOnlyMode /\ memoryOnlyMode'

\* C24: the switch to memory-only mode does not change what reads return for
\* data that was already persisted: the pet loadGotchi() returned and the
\* records getFeedingHistory / getExpressions returned before the switch are
\* returned after it (a pet unless a newer one was saved or pending, records
\* unless the cap or pruneOldData evicted them).
C24_SwitchKeepsPersistedData ==
    [][SwitchStep =>
        /\ (/\ PersistedGotchi # NullGotchi
            /\ HasRequiredFields(PersistedGotchi)
            /\ pendingGotchiState = NullGotchi
            /\ lastOp'.op # "saveGotchi")
           => loadGotchi(Cur').ret = PersistedGotchi
        /\ \A K \in Kinds :
            (/\ SavedCount(K)' <= K.max
             /\ <<"pruneOldData">> \notin Events')
            => Range(PersistedList(K)) \subseteq Range(getRecords(Cur', K, K.max).ret)]_vars

\* No element occurs twice in the list.
NoDuplicates(list) ==
    \A i, j \in 1..Len(list) : list[i] = list[j] => i = j

\* The step is a save of kind K that reaches the batch threshold with the
\* browser store available, and so flushes inside the call.
BatchFlushOf(K) ==
    /\ SaveOf(K)
    /\ Len(Flushed(K)) >= BATCH_SIZE
    /\ isLocalStorageAvailable(Cur).ret

\* C25: a batch-threshold flush cancels the scheduled debounce timer, so no
\* timeout of its kind is left to flush again, and across all interleavings
\* of saves, timer firings, batch flushes and flushAll every saved feeding
\* record or expression occurs at most once in the stored sequence (of the
\* browser store and of the mirror).
C25_NoDoubleFlush ==
    /\ [][\A K \in Kinds : BatchFlushOf(K) => TimersOf(K.timer)' = {}]_vars
    /\ [](\A K \in Kinds :
            /\ NoDuplicates(PersistedList(K))
            /\ NoDuplicates(memoryStorage[K.mem]))

\* The second saveExpression has flushed the batch inside the call: the
\* timeout the first one scheduled is gone and both expressions are stored
\* once.
C25_Witness ==
    /\ lastOp.op = "saveExpression"
    /\ nExpressions = BATCH_SIZE
    /\ <<"setItem", EXPRESSIONS_KEY>> \in Events
    /\ TimersOf("expressionSaveTimer") = {}
    /\ expressionSaveTimer = 0
    /\ PersistedList(ExpressionKind) = SavedRecords(BATCH_SIZE)

\* The records of the list are in the order of their save calls (a record is
\* the number of the call that saved it).
InSaveOrder(list) ==
    \A i, j \in 1..Len(list) : i < j => list[i] < list[j]

\* C26: flushes of one key preserve save order: across any interleaving of
\* timer-fired flushes, batch-triggered flushes and flushAll, the records
\* getFeedingHistory and getExpressions return are in the order in which
\* their save calls were made.
C26_SaveOrderPreserved ==
    \A K \in Kinds :
        /\ InSaveOrder(getRecords(Cur, K, K.max).ret)
        /\ InSaveOrder(PersistedList(K))
        /\ InSaveOrder(memoryStorage[K.mem])

\* A timer-fired flush has appended a feeding record to the two a batch
\* flush had written, and the read returns the three in save order.
C26_Witness ==
    /\ lastOp.op = "feedingTimer"
    /\ <<"setItem", FEEDING_HISTORY_KEY>> \in Events
    /\ nFeedings = BATCH_SIZE + 1
    /\ getFeedingHistory(Cur, MAX_FEEDING_RECORDS).ret = SavedRecords(BATCH_SIZE + 1)

\* The step is a call of saveGotchi.
SaveGotchiStep == lastOp'.op = "saveGotchi" /\ SaveGotchi

\* C27: reads are served from the backing store or the mirror, never from
\* the write buffer: a read that follows a save made in persistent mode (the
\* save found the browser store available), before the flush, returns exactly
\* what was persisted before the save; after a save made in memory-only mode
\* the very next read returns the saved data without any flush.
C27_ReadsBypassWriteBuffer ==
    [][/\ SaveGotchiStep =>
            IF isLocalStorageAvailable(Cur).ret
            THEN loadGotchi(Cur').ret = PersistedGotchi
            ELSE loadGotchi(Cur').ret = lastOp'.arg
       /\ \A K \in Kinds :
            SaveOf(K) =>
                IF isLocalStorageAvailable(Cur).ret
                THEN PendingOf(K)' # <<>> =>
                        getRecords(Cur', K, K.max).ret = PersistedList(K)
                ELSE IsSuffix(<<SavedCount(K) + 1>>, getRecords(Cur', K, K.max).ret)]_vars

\* A second pet state has been saved in persistent mode and waits in the
\* write buffer while loadGotchi still returns the first, persisted one.
C27_Witness ==
    /\ lastOp.op = "saveGotchi"
    /\ isLocalStorageAvailable(Cur).ret
    /\ pendingGotchiState # NullGotchi
    /\ PersistedGotchi # NullGotchi
    /\ PersistedGotchi # pendingGotchiState
    /\ loadGotchi(Cur).ret = PersistedGotchi

\* A feeding record saved in memory-only mode is returned by the next read
\* while nothing is pending.
C27_WitnessMirror ==
    /\ lastOp.op = "saveFeedingRecord"
    /\ memoryOnlyMode
    /\ pendingFeedingRecords = <<>>
    /\ Len(memoryStorage.feedingHistory) > 1
    /\ IsSuffix(<<nFeedings>>, getFeedingHistory(Cur, MAX_FEEDING_RECORDS).ret)

\* In persistent mode a non-empty pending buffer has a debounce timer of its
\* kind scheduled.
TimerScheduledWhilePending ==
    ~memoryOnlyMode =>
        /\ pendingGotchiState # NullGotchi => TimersOf("gotchiSaveTimer") # {}
        /\ \A K \in Kinds : PendingOf(K) # <<>> => TimersOf(K.timer) # {}

\* A buffer that is pending in persistent mode eventually becomes empty.
PendingDrains ==
    /\ (~memoryOnlyMode /\ pendingGotchiState # NullGotchi) ~> (pendingGotchiState = NullGotchi)
    /\ \A K \in Kinds : (~memoryOnlyMode /\ PendingOf(K) # <<>>) ~> (PendingOf(K) = <<>>)

\* The last element of a non-empty list.
Last(list) == list[Len(list)]

\* C28: every pending write is eventually flushed: in persistent mode a
\* non-empty pending buffer has a debounce timer scheduled for its kind, and
\* when the timers fire and no further saves arrive, a pet pending in
\* persistent mode is eventually out of the buffer and returned by
\* loadGotchi, and the newest pending record of each kind is eventually out
\* of the buffer and returned by getFeedingHistory / getExpressions.
C28_PendingEventuallyFlushed ==
    /\ []TimerScheduledWhilePending
    /\ \A g \in GotchiInputs :
            (~SavesLeft /\ ~memoryOnlyMode /\ pendingGotchiState = g)
            ~> (pendingGotchiState = NullGotchi /\ loadGotchi(Cur).ret = g)
    /\ \A K \in Kinds : \A r \in 1..MaxSaves :
            (~SavesLeft /\ ~memoryOnlyMode /\ PendingOf(K) # <<>> /\ Last(PendingOf(K)) = r)
            ~> (PendingOf(K) = <<>> /\ r \in Range(getRecords(Cur, K, K.max).ret))

\* The first thing the calls of the step did was to write key k, and the
\* write succeeded: the step is a flush, and its first flush wrote k.
FirstFlushWrote(k) ==
    /\ FlushStep
    /\ Len(lastOp'.trace) > 0
    /\ lastOp'.trace[1] = <<"setItem", k>>

\* C29: the capacity check runs after every successful flush of every record
\* kind: whether a debounce timer, the batch threshold or flushAll flushes,
\* the successful write of the pet, of the feeding history or of the
\* expressions is followed at once by checkAndPruneIfNeeded.
C29_CapacityCheckAfterFlush ==
    [][\A k \in Keys :
        FirstFlushWrote(k) =>
            /\ Len(lastOp'.trace) >= 2
            /\ lastOp'.trace[2] = <<"checkAndPruneIfNeeded">>]_vars

\* The list of kind K and the pet held by a browser store.
ListIn(ls, K) == IF IsArrayText(ls[K.key]) THEN ls[K.key].body ELSE <<>>

PetIn(ls) ==
    IF ~IsFalsyText(ls[GOTCHI_KEY]) /\ ~JSONParseThrows(ls[GOTCHI_KEY])
    THEN ls[GOTCHI_KEY].body
    ELSE NullGotchi

\* The capacity check run on the current state, and the size it measures
\* first.
CapacityCheck == checkAndPruneIfNeeded(Cur)

MeasuredSize == checkStorageSize(Cur).ret

\* The size measured once the stores have been rewritten compactly.
CompactedSize == checkStorageSize(compressStoredData(Cur)).ret

\* The capacity check leaves the pet and both sequences of records as they
\* were.
CheckKeepsContent ==
    /\ PetIn(CapacityCheck.localStorage) = PetIn(localStorage)
    /\ \A K \in Kinds : ListIn(CapacityCheck.localStorage, K) = ListIn(localStorage, K)

\* C30: the capacity check discards records only when the size still exceeds
\* the ceiling after compaction: run with the size above 80% of the ceiling
\* it rewrites the stores compactly, and at or below the ceiling it leaves
\* the pet and the sequence of records of each store as they were.
C30_PruneOnlyAfterCompaction ==
    isLocalStorageAvailable(Cur).ret =>
        /\ MeasuredSize * 5 > MAX_STORAGE_SIZE_BYTES * 4 =>
                <<"compressStoredData">> \in EventsOf(CapacityCheck)
        /\ <<"pruneOldData">> \in EventsOf(CapacityCheck) =>
                CompactedSize > MAX_STORAGE_SIZE_BYTES
        /\ MeasuredSize <= MAX_STORAGE_SIZE_BYTES => CheckKeepsContent

\* The persisted list or the mirror's list of kind K is empty or holds a
\* single entry.
SmallStore(K) == Len(PersistedList(K)) <= 1

SmallMirror(K) == Len(memoryStorage[K.mem]) <= 1

C31_WitnessMirror ==
    /\ lastOp.op = "pruneOldData"
    /\ memoryOnlyMode
    /\ nExpressions = 1
    /\ memoryStorage.expressions = <<1>>

\* pruneOldData run on the current state.
AfterPrune == pruneOldData(Cur)

\* The list of kind K pruneOldData works on, before and after: the mirror's
\* when the call finds the browser store unavailable, the persisted one
\* otherwise.
PruneInput(K) ==
    IF AfterPrune.memoryOnlyMode THEN memoryStorage[K.mem] ELSE PersistedList(K)

PruneOutput(K) ==
    IF AfterPrune.memoryOnlyMode THEN AfterPrune.memoryStorage[K.mem]
    ELSE ListIn(AfterPrune.localStorage, K)

\* pruneOldData leaves the pet alone: the stored one, the mirror's and the
\* pending one.
PruneKeepsPet ==
    /\ PetIn(AfterPrune.localStorage) = PersistedGotchi
    /\ AfterPrune.localStorage[GOTCHI_KEY] = localStorage[GOTCHI_KEY]
    /\ AfterPrune.memoryStorage.gotchi = memoryStorage.gotchi
    /\ AfterPrune.pendingGotchiState = pendingGotchiState

\* C32: pruneOldData() never changes the pet state, in persistent or
\* memory-only mode, and prunes the feeding-history and expression stores
\* independently of each other: the number of entries kept in one store
\* depends only on the size of that store.
C32_PrunePetFrameAndIndependence ==
    /\ PruneKeepsPet
    /\ \A K \in Kinds : Len(PruneOutput(K)) = Len(Pruned(PruneInput(K)))

\* C33: in memory-only mode the mirror obeys the caps of the persistent
\* store: in every reachable state it holds at most MAX_FEEDING_RECORDS
\* feeding records and at most MAX_EXPRESSIONS expressions, right after the
\* switch that moved the pending records into it included.
C33_MirrorWithinCaps ==
    \A K \in Kinds : Len(memoryStorage[K.mem]) <= K.max

\* More expressions than the cap have been saved and the mirror holds as
\* many as the cap allows.
C33_Witness ==
    /\ memoryOnlyMode
    /\ nExpressions > MAX_EXPRESSIONS
    /\ Len(memoryStorage.expressions) = MAX_EXPRESSIONS

\* A flush has just given up on the browser store and moved as many pending
\* expressions as the cap allows into the mirror.
C33_WitnessSwitch ==
    /\ memoryOnlyMode
    /\ lastOp.op \in {"saveExpression", "expressionTimer", "flushAll"}
    /\ <<"setItem throws", EXPRESSIONS_KEY>> \in Events
    /\ Len(memoryStorage.expressions) = MAX_EXPRESSIONS

\* The timeouts of the event loop scheduled through the handle `timer`.
LiveOf(timer) == {p \in liveTimers : p[1] = timer}

TimerNames == {"gotchiSaveTimer", "feedingSaveTimer", "expressionSaveTimer"}

\* What the step leaves in the event loop: after a save only the timer the
\* save scheduled is live for its kind, after a flush none is.
TimersAfterStep ==
    /\ \A K \in Kinds :
           /\ SaveOf(K) => LiveOf(K.timer)' \subseteq {<<K.timer, Cur'[K.timer]>>}
           /\ FlushOf(K) => LiveOf(K.timer)' = {}
    /\ SaveGotchiStep =>
           LiveOf("gotchiSaveTimer")' \subseteq {<<"gotchiSaveTimer", gotchiSaveTimer'>>}
    /\ (GotchiTimerStep \/ FlushAllStep) => LiveOf("gotchiSaveTimer")' = {}

\* C34: at most one debounce timer is live per record kind at any time:
\* every save cancels the timer scheduled before for its kind before it
\* schedules a new one, and every flush cancels it before writing.
C34_OneTimerPerKind ==
    /\ [](\A timer \in TimerNames : Cardinality(LiveOf(timer)) <= 1)
    /\ [][TimersAfterStep]_vars

\* A second saveGotchi has replaced the timer of the first, which had not
\* fired (nothing was written yet): one timer is live.
C34_Witness ==
    /\ lastOp.op = "saveGotchi"
    /\ nGotchiSaves = 2
    /\ nEnvEvents = 0
    /\ localStorage[GOTCHI_KEY].form = "absent"
    /\ Cardinality(LiveOf("gotchiSaveTimer")) = 1

\* The save that filled the batch has flushed both records and cancelled the
\* timer the first save had scheduled.
C34_WitnessFlush ==
    /\ lastOp.op = "saveFeedingRecord"
    /\ nFeedings = BATCH_SIZE
    /\ nEnvEvents = 0
    /\ pendingFeedingRecords = <<>>
    /\ Len(PersistedList(FeedingKind)) = BATCH_SIZE
    /\ LiveOf("feedingSaveTimer") = {}

\* C35: after any saveFeedingRecord or saveExpression call returns, the
\* pending list of its kind holds fewer than BATCH_SIZE items, and none in
\* memory-only mode, on every path, failed flushes included.
C35_PendingBelowBatchAfterSave ==
    [][\A K \in Kinds :
          SaveOf(K) =>
              /\ Len(PendingOf(K)') < BATCH_SIZE
              /\ memoryOnlyMode' => PendingOf(K)' = <<>>]_vars

\* The save that filled the batch of expressions ran a flush whose write
\* threw; the engine is in memory-only mode with nothing pending.
C35_Witness ==
    /\ lastOp.op = "saveExpression"
    /\ <<"setItem throws", EXPRESSIONS_KEY>> \in Events
    /\ memoryOnlyMode
    /\ pendingExpressions = <<>>

\* The save that filled the batch of feeding records flushed it.
C35_WitnessFlushed ==
    /\ lastOp.op = "saveFeedingRecord"
    /\ <<"setItem", FEEDING_HISTORY_KEY>> \in Events
    /\ ~memoryOnlyMode
    /\ pendingFeedingRecords = <<>>

\* Emotion values in [0,1], in tenths.
UnitInterval == 0..10

\* The step is a call of feedWords of the session fed with every weight.
FeedWordsAnalysedStep == lastOp'.op = "feedWords" /\ FeedWordsAnalysed

\* C36: merging the emotion analysis of a feeding into the pet's emotions
\* keeps every value in [0,1]: for all current and new values in [0,1] the
\* merged value is min(1, current + new); feedWords merges into the pet of
\* its closure, and after any sequence of feedings the emotion of the pet
\* is in [0,1].
C36_MergedEmotionsInUnitInterval ==
    /\ [](\A current \in UnitInterval, newEmotions \in UnitInterval :
            /\ mergeEmotions(current, newEmotions) = Min(10, current + newEmotions)
            /\ mergeEmotions(current, newEmotions) \in UnitInterval)
    /\ [](gotchi # NullGotchi => gotchi[4] \in UnitInterval)
    /\ [][FeedWordsAnalysedStep =>
            \E analysis \in AnalysisLevels :
                gotchi'[4] = Min(10, processFeeding.gotchi[4] + analysis)]_vars

\* A feeding has merged an analysis into a pet whose joy was 0.7: the sum
\* (at least 1.1) was capped at 1.
C36_Witness ==
    /\ lastOp.op = "feedWords"
    /\ processFeeding.pc = "playEmoteAnimation"
    /\ processFeeding.gotchi[4] = 7
    /\ gotchi[4] = 10

\* s is the beginning of t.
IsPrefix(s, t) == Len(s) <= Len(t) /\ s = SubSeq(t, 1, Len(s))

\* makeRequestWithRetry is running.
InRetryLoop == claude.pc \in {"makeRequest", "sleep"}

\* The step is a request that resolves / that rejects.
RequestSucceedsStep == claude'.pc = "done" /\ RequestSucceeds

RequestFailsStep == claude.pc = "makeRequest" /\ claude'.retry # "returned" /\ RequestFails

C37_WitnessSecondAttempt ==
    /\ claude.retry = "returned"
    /\ claude.requests = 2
    /\ claude.slept = <<1000>>

\* Emotion values in [0,1], in hundredths.
UnitRange == 0..100

\* analyzeEmotion has settled.
AnalysisSettled == claude.caller = "analyzeEmotion" /\ claude.pc = "done"

\* C38: analyzeEmotion never propagates a failure to its caller: its promise
\* is never rejected; when every attempt failed or the response cannot be
\* parsed it resolves with the neutral emotion vector; and every emotion
\* value it returns is in [0,1].
C38_AnalyzeEmotionNeverFails ==
    /\ \A value \in RawValues : normalizeEmotionValue(value) \in UnitRange
    /\ AnalysisSettled =>
            /\ claude.settled = "resolved"
            /\ \A i \in 1..Len(claude.ret) : claude.ret[i] \in UnitRange
            /\ Len(claude.ret) = 2
            /\ (claude.retry = "thrown" \/ claude.response.form # "json") =>
                    claude.ret = getNeutralEmotions

\* All four attempts of an analysis failed and it resolved with the neutral
\* vector.
C38_Witness ==
    /\ AnalysisSettled
    /\ claude.retry = "thrown"
    /\ claude.requests = 4
    /\ claude.ret = getNeutralEmotions

\* The response of an analysis could not be parsed and it resolved with the
\* neutral vector.
C38_WitnessUnparsed ==
    /\ AnalysisSettled
    /\ claude.retry = "returned"
    /\ claude.response.form = "malformed"
    /\ claude.ret = getNeutralEmotions

\* A value above the range in the response was clamped to 1.
C38_WitnessClamped ==
    /\ AnalysisSettled
    /\ claude.response.form = "json"
    /\ claude.response.joy = [type |-> "number", v |-> 150]
    /\ claude.ret[1] = 100

====
